---------------------------- MODULE Spec2Model ----------------------------
(***************************************************************************)
(* Verification model of the queqiao-node-sdk connection and correlation   *)
(* layer: the pending request table (pending.ts), the client facade that   *)
(* drives it (client.ts) and the forward connection (forward.ts).          *)
(*                                                                         *)
(* Strings are TLA+ strings; the keys and messages the code builds with    *)
(* template literals are built here with \o and ToString.                  *)
(***************************************************************************)
EXTENDS Integers, Sequences, FiniteSets, TLC

(***************************************************************************)
(* Bounds of the model.                                                    *)
(***************************************************************************)
\* number of create() calls that succeed in one behaviour
MaxCreates == 2
\* the largest configured maxPendingRequests drawn at Init (0 = no limit)
MaxCapacity == 1
\* number of sockets one ForwardConnection dials in one behaviour
MaxSockets == 3
\* number of inbound sockets the reverse servers accept in one behaviour
MaxPeers == 3
\* number of servers ReverseConnection.connect() constructs in one behaviour
MaxServers == 2
\* number of close() calls with no name on the reverse connection
MaxCloses == 2
\* number of sockets one entry of the forward pool dials in one behaviour
MaxPoolSockets == 2
\* number of pool connect() calls with no name in one behaviour
MaxPoolCalls == 2
\* the largest heartbeat interval and timeout a caller configures, in ms
MaxIntervalMs == 2
MaxTimeoutMs == 3
\* ForwardConnections a pool constructs in all, and the sockets each dials
MaxObjects == 2
MaxDynSockets == 2

(***************************************************************************)
(* Inputs.                                                                 *)
(***************************************************************************)
\* socket names (selfName) the connection layer reports
Names == {"A", "B"}
\* the optional `connection` argument: "" stands for an absent argument
\* (undefined and "" are both falsy in getKey/popHandler)
Scopes == {""} \cup Names
\* correlation ids; "A::e1" is a caller-chosen echo that looks like a scoped key
Echoes == {"e1", "A::e1"}
Apis == {"broadcast"}
TimeoutChoices == {10}
\* error values handed to cancel/reject: Error instances, and a bare string
\* as a rejected send may carry
MkError(msg) == [kind |-> "Error", message |-> msg]
MkString(msg) == [kind |-> "string", message |-> msg]
SendErrors == {MkString("socket hang up")}
ClosedError == MkError("WebSocket connection closed")
CleanupError == MkError("cleanup")

VARIABLES
  maxRequests,   \* PendingRequests.maxRequests
  pending,       \* PendingRequests.pending: insertion-ordered Map, as a sequence
  promises,      \* the promise returned by each successful create(), by creation index
  timers,        \* armed setTimeout callbacks of create(), with what each closes over
  inflight,      \* request() calls whose connection.send() has not settled yet
  last           \* the last call made and what it returned or threw

pvars == <<maxRequests, pending, promises, timers, inflight, last>>

VARIABLES
  opts,          \* ForwardConnection's readonly options, fixed by the constructor
  fwd,           \* ForwardConnection's mutable fields
  sockets,       \* every WebSocket the connection constructed, in order
  attempts,      \* the promise of each connect attempt; attempt i dialled socket i
  obs            \* the last step: what was called, returned and emitted

fvars == <<opts, fwd, sockets, attempts, obs>>

VARIABLES
  rcfg,          \* ReverseConnection's readonly options
  rev,           \* ReverseConnection's mutable fields and Maps
  servers,       \* every WebSocketServer connect() constructed, in order
  peers,         \* every inbound socket the servers handed to handleConnection
  rclose,        \* the close() call with no name that is in progress, if any
  robs           \* the last step: what was called, returned and emitted

rvars == <<rcfg, rev, servers, peers, rclose, robs>>

VARIABLES
  pool,          \* ForwardConnectionPool.connections: each entry's ForwardConnection
  pcall,         \* the pool connect() call with no name that is in progress, if any
  pobs           \* the last step of the pool

plvars == <<pool, pcall, pobs>>

VARIABLES
  hb,            \* one startHeartbeat() monitor: its options, timer, clock and socket
  hd             \* one call of a headers.ts function: its arguments and its result

VARIABLES
  dyn,           \* a ForwardConnectionPool with add() and remove(): every
                 \* ForwardConnection it constructed, its Map, the remove() calls waiting
  dobs           \* the last step of that pool

dvars == <<dyn, dobs>>

VARIABLES
  client         \* QueQiaoClient: openConnections and what its listeners emitted last

xvars == <<hb, hd, dvars, client>>
vars == <<pvars, fvars, rvars, plvars, xvars>>

(***************************************************************************)
(* utils.ts                                                                *)
(***************************************************************************)
normalizeError(error) ==
  IF error.kind = "Error" THEN error
  ELSE MkError(IF error.kind = "string" THEN error.message ELSE "Unknown error")

(***************************************************************************)
(* Map<string, PendingHandler> as a sequence of entries in insertion order *)
(***************************************************************************)
MapHas(m, k) == \E i \in 1..Len(m) : m[i].key = k
MapIndex(m, k) == CHOOSE i \in 1..Len(m) : m[i].key = k
MapGet(m, k) == m[MapIndex(m, k)]
MapDelete(m, k) == SelectSeq(m, LAMBDA e : e.key # k)
MapSet(m, k, v) ==
  IF MapHas(m, k)
    THEN [i \in 1..Len(m) |-> IF m[i].key = k THEN v ELSE m[i]]
    ELSE Append(m, v)
MapEntries(m) == {m[i] : i \in 1..Len(m)}

(***************************************************************************)
(* The resolve/reject functions of a promise, captured by its handler and  *)
(* its timer.  A promise keeps its first settlement; `settles` counts      *)
(* every call of either function.                                          *)
(***************************************************************************)
Settle(ps, id, state, value) ==
  [ps EXCEPT ![id] =
     [settles |-> ps[id].settles + 1,
      state |-> IF ps[id].state = "pending" THEN state ELSE ps[id].state,
      value |-> IF ps[id].state = "pending" THEN value ELSE ps[id].value]]

\* the table as one value: what the methods of PendingRequests read and write
Table == [pending |-> pending, promises |-> promises, timers |-> timers]

(***************************************************************************)
(* pending.ts: PendingRequests                                             *)
(***************************************************************************)
\* mutant: keys that ignore the connection
getKeyBare(echo, connection) == echo

getKey(echo, connection) ==
  IF connection # "" THEN connection \o "::" \o echo ELSE echo

\* the message of the timeout callback
TimeoutMessage(timeoutMs, api, connection) ==
  "Request timeout after " \o ToString(timeoutMs) \o "ms: "
    \o (IF connection # "" THEN connection \o "/" \o api ELSE api)

TooManyMessage(max) == "Too many pending requests (max " \o ToString(max) \o ")"
DuplicateMessage(echo) == "Duplicate echo value: " \o echo

\* mutant: no duplicate check, the second create overwrites the entry
CreateErrorNoDuplicateCheck(t, max, echo, connection) ==
  IF max > 0 /\ Len(t.pending) >= max THEN TooManyMessage(max) ELSE ""

\* mutant: the capacity test is > where the code has >=
CreateErrorOffByOne(t, max, echo, connection) ==
  IF max > 0 /\ Len(t.pending) > max THEN TooManyMessage(max)
  ELSE IF MapHas(t.pending, getKey(echo, connection)) THEN DuplicateMessage(echo)
  ELSE ""

\* create(): the error it throws, or "" when it returns a promise
CreateError(t, max, echo, connection) ==
  IF max > 0 /\ Len(t.pending) >= max THEN TooManyMessage(max)
  ELSE IF MapHas(t.pending, getKey(echo, connection)) THEN DuplicateMessage(echo)
  ELSE ""

\* create() past its checks: a new promise, its timer armed, its handler stored
CreateEntry(t, echo, timeoutMs, api, connection) ==
  LET id == Len(t.promises) + 1
      key == getKey(echo, connection)
  IN [pending |-> MapSet(t.pending, key,
                         [key |-> key, id |-> id, connection |-> connection]),
      promises |-> Append(t.promises,
                          [settles |-> 0, state |-> "pending", value |-> ""]),
      timers |-> t.timers \cup {[id |-> id, key |-> key, echo |-> echo,
                                 connection |-> connection, api |-> api,
                                 timeoutMs |-> timeoutMs]}]

\* clearTimeout(handler.timeout)
clearTimeout(ts, id) == {tm \in ts : tm.id # id}

\* mutant: the timeout callback rejects without deleting the key
TimeoutCallbackKeepsEntry(t, tm) ==
  [pending |-> t.pending,
   promises |-> Settle(t.promises, tm.id, "rejected",
                       TimeoutMessage(tm.timeoutMs, tm.api, tm.connection)),
   timers |-> t.timers \ {tm}]

\* the setTimeout callback of create(): delete the key, reject the caller
TimeoutCallback(t, tm) ==
  [pending |-> MapDelete(t.pending, tm.key),
   promises |-> Settle(t.promises, tm.id, "rejected",
                       TimeoutMessage(tm.timeoutMs, tm.api, tm.connection)),
   timers |-> t.timers \ {tm}]

\* popHandler(): the key it ends on, the scoped key first and then the bare echo
PopKey(t, echo, connection) ==
  IF ~MapHas(t.pending, getKey(echo, connection)) /\ connection # ""
    THEN echo
    ELSE getKey(echo, connection)

PopHit(t, echo, connection) == MapHas(t.pending, PopKey(t, echo, connection))

\* mutant: popHandler deletes the key and leaves the timer armed
popHandlerKeepsTimer(t, echo, connection) ==
  LET key == PopKey(t, echo, connection)
  IN IF ~MapHas(t.pending, key) THEN t
     ELSE [t EXCEPT !.pending = MapDelete(@, key)]

\* popHandler(): clears the timer of the handler it found and deletes its key
popHandler(t, echo, connection) ==
  LET key == PopKey(t, echo, connection)
  IN IF ~MapHas(t.pending, key) THEN t
     ELSE [t EXCEPT !.timers = clearTimeout(@, MapGet(t.pending, key).id),
                    !.pending = MapDelete(@, key)]

resolve(t, echo, response, connection) ==
  IF ~PopHit(t, echo, connection) THEN t
  ELSE LET handler == MapGet(t.pending, PopKey(t, echo, connection))
           t1 == popHandler(t, echo, connection)
       IN [t1 EXCEPT !.promises = Settle(@, handler.id, "fulfilled", response)]

cancel(t, echo, error, connection) ==
  IF ~PopHit(t, echo, connection) THEN t
  ELSE LET handler == MapGet(t.pending, PopKey(t, echo, connection))
           t1 == popHandler(t, echo, connection)
       IN [t1 EXCEPT !.promises =
             Settle(@, handler.id, "rejected", normalizeError(error).message)]

\* mutant: a bulk rejection leaves the deadline timer running
clearHandlerKeepsTimer(t, key, handler, error) ==
  [pending |-> MapDelete(t.pending, key),
   promises |-> Settle(t.promises, handler.id, "rejected", normalizeError(error).message),
   timers |-> t.timers]

clearHandler(t, key, handler, error) ==
  [pending |-> MapDelete(t.pending, key),
   promises |-> Settle(t.promises, handler.id, "rejected", normalizeError(error).message),
   timers |-> clearTimeout(t.timers, handler.id)]

\* mutant: the walk ends at the first entry it rejects
RECURSIVE rejectWalkStopsAfterFirst(_, _, _, _, _)
rejectWalkStopsAfterFirst(t, visit, all, connection, error) ==
  IF visit = <<>> THEN t
  ELSE LET entry == Head(visit)
           skip == ~all /\ entry.connection # connection
       IN IF skip
            THEN rejectWalkStopsAfterFirst(t, Tail(visit), all, connection, error)
            ELSE clearHandler(t, entry.key, entry, error)

\* rejectWhere(): one pass over the Map in insertion order; the only entry a
\* visit deletes is the one being visited, so the walk goes on with the rest
RECURSIVE rejectWalk(_, _, _, _, _)
rejectWalk(t, visit, all, connection, error) ==
  IF visit = <<>> THEN t
  ELSE LET entry == Head(visit)
           skip == ~all /\ entry.connection # connection
       IN rejectWalk(IF skip THEN t ELSE clearHandler(t, entry.key, entry, error),
                     Tail(visit), all, connection, error)

rejectWhere(t, all, connection, error) ==
  rejectWalk(t, t.pending, all, connection, error)

rejectAll(t, error) == rejectWhere(t, TRUE, "", error)
rejectByConnection(t, connection, error) == rejectWhere(t, FALSE, connection, error)

(***************************************************************************)
(* The pending table and the client calls that drive it.                   *)
(***************************************************************************)
Called(op, result) == [op |-> op, result |-> result]

SetTable(t) ==
  /\ pending' = t.pending
  /\ promises' = t.promises
  /\ timers' = t.timers

\* the response payload a peer sends back for a request
ResponseFor(echo) == "SUCCESS:" \o echo

PInit ==
  /\ maxRequests \in {0, MaxCapacity}
  /\ pending = <<>>
  /\ promises = <<>>
  /\ timers = {}
  /\ inflight = {}
  /\ last = Called("new", "")

\* PendingRequests.create called directly, with or without a connection
Create(echo, timeoutMs, api, connection) ==
  LET err == CreateError(Table, maxRequests, echo, connection)
  IN /\ err # "" \/ Len(promises) < MaxCreates
     /\ IF err # ""
          THEN /\ last' = Called("create", err)
               /\ UNCHANGED <<pending, promises, timers>>
          ELSE /\ SetTable(CreateEntry(Table, echo, timeoutMs, api, connection))
               /\ last' = Called("create", "ok")
     /\ UNCHANGED <<maxRequests, inflight>>

\* QueQiaoClient.request from pending.create on: the entry is created, then
\* the payload is handed to connection.send(); a throwing create sends nothing
Request(selfName, echo, timeoutMs, api) ==
  LET err == CreateError(Table, maxRequests, echo, selfName)
  IN /\ err # "" \/ Len(promises) < MaxCreates
     /\ IF err # ""
          THEN /\ last' = Called("request", err)
               /\ UNCHANGED <<pending, promises, timers, inflight>>
          ELSE /\ SetTable(CreateEntry(Table, echo, timeoutMs, api, selfName))
               /\ inflight' = inflight \cup {[echo |-> echo, selfName |-> selfName]}
               /\ last' = Called("request", "sent")
     /\ UNCHANGED maxRequests

\* connection.send() of a request acknowledges
SendAck(call) ==
  /\ call \in inflight
  /\ inflight' = inflight \ {call}
  /\ last' = Called("sendAck", "")
  /\ UNCHANGED <<maxRequests, pending, promises, timers>>

\* connection.send() of a request fails: request() cancels its entry
SendFail(call, error) ==
  /\ call \in inflight
  /\ inflight' = inflight \ {call}
  /\ SetTable(cancel(Table, call.echo, normalizeError(error), call.selfName))
  /\ last' = Called("sendFail", normalizeError(error).message)
  /\ UNCHANGED maxRequests

\* PendingRequests.resolve called directly
Resolve(echo, connection) ==
  /\ SetTable(resolve(Table, echo, ResponseFor(echo), connection))
  /\ last' = Called("resolve", IF PopHit(Table, echo, connection) THEN "true" ELSE "false")
  /\ UNCHANGED <<maxRequests, inflight>>

\* QueQiaoClient.handleMessage for a response payload with a non-empty echo
HandleMessage(selfName, echo) ==
  /\ SetTable(resolve(Table, echo, ResponseFor(echo), selfName))
  /\ last' = Called("handleMessage",
                    IF PopHit(Table, echo, selfName) THEN "true" ELSE "false")
  /\ UNCHANGED <<maxRequests, inflight>>

\* PendingRequests.cancel called directly
Cancel(echo, error, connection) ==
  /\ SetTable(cancel(Table, echo, error, connection))
  /\ last' = Called("cancel", "")
  /\ UNCHANGED <<maxRequests, inflight>>

\* a deadline timer of create() fires
TimeoutFire(tm) ==
  /\ tm \in timers
  /\ SetTable(TimeoutCallback(Table, tm))
  /\ last' = Called("timeout", "")
  /\ UNCHANGED <<maxRequests, inflight>>

\* PendingRequests.rejectAll / rejectByConnection called directly
RejectAll(error) ==
  /\ SetTable(rejectAll(Table, error))
  /\ last' = Called("rejectAll", "")
  /\ UNCHANGED <<maxRequests, inflight>>

RejectByConnection(connection, error) ==
  /\ SetTable(rejectByConnection(Table, connection, error))
  /\ last' = Called("rejectByConnection", "")
  /\ UNCHANGED <<maxRequests, inflight>>

\* mutant: handleClose re-emits the close and rejects nothing
HandleCloseEmitOnly(selfName) ==
  /\ last' = [op |-> "handleClose", result |-> selfName]
  /\ UNCHANGED <<maxRequests, pending, promises, timers, inflight>>

\* QueQiaoClient.handleClose: the connection layer emitted close for selfName
HandleClose(selfName) ==
  /\ SetTable(rejectByConnection(Table, selfName, ClosedError))
  /\ last' = Called("handleClose", selfName)
  /\ UNCHANGED <<maxRequests, inflight>>

\* QueQiaoClient.close once connection.close() has settled: the finally block
ClientClose(selfName) ==
  /\ SetTable(IF selfName # "" THEN rejectByConnection(Table, selfName, ClosedError)
                               ELSE rejectAll(Table, ClosedError))
  /\ last' = Called("close", selfName)
  /\ UNCHANGED <<maxRequests, inflight>>

(***************************************************************************)
(* ForwardConnection over the ws library's WebSocket.                      *)
(*                                                                         *)
(* A step is one task of the event loop: a public call, a timer callback   *)
(* or a socket event, together with every listener it runs.  A promise is  *)
(* settled and its finally callback run within the step that settles it.   *)
(***************************************************************************)
ReconnectIntervals == {1, 3}
ReconnectMaxIntervals == {2, 4}
HeartbeatIntervals == {0, 5}

Min(a, b) == IF a < b THEN a ELSE b

\* an emitted event; attempt and delay are the arguments of 'reconnect'
Ev(type) == [type |-> type, attempt |-> 0, delay |-> 0]
ReconnectEv(attempt, delay) == [type |-> "reconnect", attempt |-> attempt, delay |-> delay]

\* the connection, its sockets and promises while a step runs; `e` collects
\* the events emitted, `ret` the promise connect() returns (0: returns at once),
\* `err` the error a promise was rejected with, `sent` whether the payload
\* of send() was handed to the socket, `beat` the socket a heartbeat monitor
\* pinged or terminated
World == [c |-> fwd, s |-> sockets, p |-> attempts, e |-> <<>>, ret |-> 0, made |-> 0,
          err |-> "", sent |-> FALSE, beat |-> 0, src |-> 0]

emit(w, ev) == [w EXCEPT !.e = Append(@, ev)]

isOpen(w) == w.c.ws # 0 /\ w.s[w.c.ws].readyState = "OPEN"

\* reject()/resolve() of a connect attempt and the .finally() that follows
settle(w, a, state) ==
  IF w.p[a] # "pending" THEN w
  ELSE [w EXCEPT !.p[a] = state, !.c.connectPromise = 0]

\* reject(error) of a connect attempt
rejectAttempt(w, a, error) ==
  IF w.p[a] # "pending" THEN w
  ELSE [settle(w, a, "rejected") EXCEPT !.err = error]

clearReconnectTimer(w) ==
  IF ~w.c.reconnectTimer THEN w
  ELSE [w EXCEPT !.c.reconnectTimer = FALSE]

\* mutant: the delay is never capped
scheduleReconnectUncapped(w) ==
  IF w.c.reconnectTimer THEN w
  ELSE LET delay == w.c.reconnectDelayMs
           attempt == w.c.reconnectAttempt + 1
       IN emit([w EXCEPT !.c.reconnectAttempt = attempt,
                         !.c.reconnectTimer = TRUE,
                         !.c.reconnectDelayMs = delay * 2],
               ReconnectEv(attempt, delay))

\* mutant: a reconnect is scheduled although a timer is pending
scheduleReconnectAgain(w) ==
  LET delay == Min(w.c.reconnectDelayMs, opts.reconnectMaxIntervalMs)
      attempt == w.c.reconnectAttempt + 1
  IN emit([w EXCEPT !.c.reconnectAttempt = attempt,
                    !.c.reconnectTimer = TRUE,
                    !.c.reconnectDelayMs = Min(delay * 2, opts.reconnectMaxIntervalMs)],
          ReconnectEv(attempt, delay))

scheduleReconnect(w) ==
  IF w.c.reconnectTimer THEN w
  ELSE LET delay == Min(w.c.reconnectDelayMs, opts.reconnectMaxIntervalMs)
           attempt == w.c.reconnectAttempt + 1
       IN emit([w EXCEPT !.c.reconnectAttempt = attempt,
                         !.c.reconnectTimer = TRUE,
                         !.c.reconnectDelayMs = Min(delay * 2, opts.reconnectMaxIntervalMs)],
               ReconnectEv(attempt, delay))

\* this.heartbeatStop?.(): clearInterval of the monitor it belongs to
stopHeartbeat(w) ==
  IF w.c.heartbeatStop = 0 THEN w
  ELSE [w EXCEPT !.s[w.c.heartbeatStop].monitor = FALSE]

\* mutant: a close during closing still schedules a reconnect
handleCloseIgnoresClosing(w) ==
  LET w1 == emit([stopHeartbeat(w) EXCEPT !.c.heartbeatStop = 0, !.c.ws = 0], Ev("close"))
  IN IF opts.reconnect THEN scheduleReconnect(w1) ELSE w1

\* mutant: a close is announced and no reconnect is scheduled
handleCloseNeverReconnects(w) ==
  emit([stopHeartbeat(w) EXCEPT !.c.heartbeatStop = 0, !.c.ws = 0], Ev("close"))

handleClose(w) ==
  LET w1 == emit([stopHeartbeat(w) EXCEPT !.c.heartbeatStop = 0, !.c.ws = 0], Ev("close"))
  IN IF ~w1.c.closing /\ opts.reconnect THEN scheduleReconnect(w1) ELSE w1

\* mutant: cleanup() leaves the connect timeout armed
cleanupKeepsTimeout(w, s) == [w EXCEPT !.s[s].handshake = FALSE]

\* cleanup() of the attempt that dialled socket s
cleanup(w, s) == [w EXCEPT !.s[s].connectTimeout = FALSE, !.s[s].handshake = FALSE]

\* mutant: handleOpen does not emit 'open'
handleOpenSilently(w, s) ==
  LET w1 == stopHeartbeat([cleanup(w, s) EXCEPT
                             !.c.reconnectAttempt = 0,
                             !.c.reconnectDelayMs = opts.reconnectIntervalMs])
      w2 == [w1 EXCEPT !.c.heartbeatStop = s,
                       !.s[s].monitor = (opts.heartbeatIntervalMs > 0)]
  IN settle(w2, s, "resolved")

\* handleOpen of the attempt that dialled socket s
handleOpen(w, s) ==
  LET w1 == stopHeartbeat([cleanup(w, s) EXCEPT
                             !.c.reconnectAttempt = 0,
                             !.c.reconnectDelayMs = opts.reconnectIntervalMs])
      w2 == [w1 EXCEPT !.c.heartbeatStop = s,
                       !.s[s].monitor = (opts.heartbeatIntervalMs > 0)]
  IN settle(emit([w2 EXCEPT !.s[s].opened = TRUE], Ev("open")), s, "resolved")

\* handleError of the attempt that dialled socket s
handleError(w, s) == rejectAttempt(cleanup(w, s), s, "socket error")

\* the ws library failing or aborting a handshake: 'error' then 'close' are
\* emitted back to back; the listeners run in the order connect() attached them
abortHandshake(w, s) ==
  LET w1 == [w EXCEPT !.s[s].readyState = "CLOSED"]
      w2 == IF w1.s[s].handshake THEN handleError(w1, s) ELSE w1
  IN handleClose(emit(w2, Ev("error")))

\* ws.terminate()
terminate(w, s) ==
  CASE w.s[s].readyState = "CONNECTING" -> abortHandshake(w, s)
    [] w.s[s].readyState = "OPEN" -> [w EXCEPT !.s[s].readyState = "CLOSING"]
    [] OTHER -> w

\* the setInterval callback of the monitor of socket s; timedOut says
\* whether more than timeoutMs has passed since the last pong
heartbeatTick(w, s, timedOut) ==
  IF w.s[s].readyState # "OPEN" THEN w
  ELSE IF timedOut THEN [terminate(w, s) EXCEPT !.beat = s]
  ELSE [w EXCEPT !.beat = s]

\* opened: the connection has emitted 'open' for this socket
NewSocket == [readyState |-> "CONNECTING", handshake |-> TRUE,
              connectTimeout |-> TRUE, monitor |-> FALSE, opened |-> FALSE]

\* mutant: connect() dials without looking at the attempt in flight
connectAlwaysDials(w) ==
  IF isOpen(w) THEN [w EXCEPT !.ret = 0]
  ELSE LET n == Len(w.s) + 1
       IN [w EXCEPT !.c.closing = FALSE, !.c.connectPromise = n, !.c.ws = n,
                    !.s = Append(@, NewSocket), !.p = Append(@, "pending"),
                    !.ret = n, !.made = n]

connect(w) ==
  IF isOpen(w) THEN [w EXCEPT !.ret = 0]
  ELSE IF w.c.connectPromise # 0 THEN [w EXCEPT !.ret = w.c.connectPromise]
  ELSE LET n == Len(w.s) + 1
       IN [w EXCEPT !.c.closing = FALSE, !.c.connectPromise = n, !.c.ws = n,
                    !.s = Append(@, NewSocket), !.p = Append(@, "pending"),
                    !.ret = n, !.made = n]

\* close() up to its await
close(w) ==
  LET w1 == clearReconnectTimer([w EXCEPT !.c.closing = TRUE])
      ws == w1.c.ws
  IN IF ws = 0 THEN w1
     ELSE CASE w1.s[ws].readyState = "CLOSED" -> w1
            [] w1.s[ws].readyState = "CONNECTING" -> abortHandshake(w1, ws)
            [] w1.s[ws].readyState = "OPEN" -> [w1 EXCEPT !.s[ws].readyState = "CLOSING"]
            [] OTHER -> w1

\* ForwardConnection.send up to the socket's send
send(w) ==
  IF w.c.ws = 0 \/ w.s[w.c.ws].readyState # "OPEN"
    THEN [w EXCEPT !.err = "WebSocket is not open"]
    ELSE [w EXCEPT !.sent = TRUE]

IsReconnect(ev) == ev.type = "reconnect"
Emitted(w, type) == \E i \in 1..Len(w.e) : w.e[i].type = type

\* a step ends: the fields are written back and the step is recorded.
\* obs.run counts the 'reconnect' events since the last 'open';
\* obs.userClosed holds from a close() call to the next connect() call.
Commit(w, op, userClosed) ==
  /\ Len(w.s) <= MaxSockets
  /\ fwd' = w.c
  /\ sockets' = w.s
  /\ attempts' = w.p
  /\ obs' = [op |-> op, ret |-> w.ret, made |-> w.made, events |-> w.e,
             run |-> IF Emitted(w, "open") THEN 0
                     ELSE IF Emitted(w, "reconnect") THEN obs.run + 1
                     ELSE obs.run,
             userClosed |-> userClosed, err |-> w.err, sent |-> w.sent, beat |-> w.beat,
             src |-> w.src]
  /\ UNCHANGED opts

FInit ==
  /\ opts \in [reconnect : BOOLEAN,
               reconnectIntervalMs : ReconnectIntervals,
               reconnectMaxIntervalMs : ReconnectMaxIntervals,
               heartbeatIntervalMs : HeartbeatIntervals]
  /\ fwd = [ws |-> 0, connectPromise |-> 0, closing |-> FALSE,
            reconnectAttempt |-> 0, reconnectDelayMs |-> opts.reconnectIntervalMs,
            reconnectTimer |-> FALSE, heartbeatStop |-> 0]
  /\ sockets = <<>>
  /\ attempts = <<>>
  /\ obs = [op |-> "new", ret |-> 0, made |-> 0, events |-> <<>>, run |-> 0,
            userClosed |-> FALSE, err |-> "", sent |-> FALSE, beat |-> 0, src |-> 0]

\* connect() called by the owner of the connection
Connect == Commit(connect(World), "connect", FALSE)

\* close() called by the owner of the connection
Close == Commit(close(World), "close", TRUE)

\* the interval timer of the monitor of socket s fires
HeartbeatTick(s, timedOut) ==
  /\ sockets[s].monitor
  /\ Commit(heartbeatTick(World, s, timedOut), "heartbeat", obs.userClosed)

\* send(payload) called by the owner of the connection
Send == Commit(send(World), "send", obs.userClosed)

\* the reconnect timer fires
ReconnectTimerFire ==
  /\ fwd.reconnectTimer
  /\ Commit(connect([World EXCEPT !.c.reconnectTimer = FALSE]), "reconnectTimer",
            obs.userClosed)

\* the connect timeout of the attempt that dialled socket s fires; the events
\* of ws.terminate() are delivered on the next tick, after reject() has run
ConnectTimeoutFire(s) ==
  /\ sockets[s].connectTimeout
  /\ LET w == rejectAttempt([World EXCEPT !.s[s].connectTimeout = FALSE], s, "connect timeout")
     IN Commit(terminate(w, s), "connectTimeout", obs.userClosed)

\* socket s delivers a message: the 'message' listener of connect()
SocketMessage(s) ==
  /\ sockets[s].readyState \in {"OPEN", "CLOSING"}
  /\ Commit(emit([World EXCEPT !.src = s], Ev("message")), "socketMessage", obs.userClosed)

\* socket s completes its handshake
SocketOpen(s) ==
  /\ sockets[s].readyState = "CONNECTING"
  /\ LET w == [World EXCEPT !.s[s].readyState = "OPEN", !.src = s]
     IN Commit(IF w.s[s].handshake THEN handleOpen(w, s) ELSE w, "socketOpen",
               obs.userClosed)

\* socket s fails its handshake
SocketError(s) ==
  /\ sockets[s].readyState = "CONNECTING"
  /\ Commit(abortHandshake([World EXCEPT !.src = s], s), "socketError", obs.userClosed)

\* socket s, open or closing, is closed
SocketClose(s) ==
  /\ sockets[s].readyState \in {"OPEN", "CLOSING"}
  /\ Commit(handleClose([World EXCEPT !.s[s].readyState = "CLOSED", !.src = s]),
            "socketClose", obs.userClosed)

(***************************************************************************)
(* headers.ts.  Header values are sequences of characters, so that trim,   *)
(* toLowerCase, startsWith and slice do what String's methods do.          *)
(***************************************************************************)
lowerChar(ch) ==
  CASE ch = "B" -> "b" [] ch = "E" -> "e" [] ch = "A" -> "a"
    [] ch = "R" -> "r" [] ch = "T" -> "t" [] OTHER -> ch
toLowerCase(str) == [i \in 1..Len(str) |-> lowerChar(str[i])]
RECURSIVE trimStart(_)
trimStart(str) ==
  IF str # <<>> /\ Head(str) = " " THEN trimStart(Tail(str)) ELSE str
RECURSIVE trimEnd(_)
trimEnd(str) ==
  IF str # <<>> /\ str[Len(str)] = " " THEN trimEnd(SubSeq(str, 1, Len(str) - 1)) ELSE str
trim(str) == trimEnd(trimStart(str))
startsWith(str, prefix) ==
  Len(str) >= Len(prefix) /\ SubSeq(str, 1, Len(prefix)) = prefix
slice(str, n) == SubSeq(str, n + 1, Len(str))

\* 'Bearer ' and 'bearer '
BearerPrefix == <<"B", "e", "a", "r", "e", "r", " ">>
bearerPrefix == <<"b", "e", "a", "r", "e", "r", " ">>

normalizeBearer(token) ==
  LET trimmed == trim(token)
  IN IF startsWith(toLowerCase(trimmed), bearerPrefix)
       THEN BearerPrefix \o trim(slice(trimmed, Len(bearerPrefix)))
       ELSE BearerPrefix \o trimmed

\* <<>> stands for an absent (undefined) or empty header: both are falsy
matchAuthorization(expectedToken, incoming) ==
  /\ incoming # <<>>
  /\ normalizeBearer(incoming) = normalizeBearer(expectedToken)

\* the request's headers, keys already lowered; an empty value is dropped
normalizeHeaderValue(headers) == [k \in DOMAIN headers |-> trim(headers[k])]

\* mutant: a strict policy does not look at the authorization header
validateIgnoringToken(normalized, policy) ==
  IF ~policy.strict THEN ""
  ELSE IF normalized.selfName = <<>> THEN "missing x-self-name header"
  ELSE IF policy.expectedSelfName # <<>> /\ policy.expectedSelfName # normalized.selfName
    THEN "x-self-name mismatch"
  ELSE ""

\* validateNormalizedHeaders: "" for { ok: true }, else the reason
validateNormalizedHeaders(normalized, policy) ==
  IF ~policy.strict THEN ""
  ELSE IF normalized.selfName = <<>> THEN "missing x-self-name header"
  ELSE IF policy.expectedSelfName # <<>> /\ policy.expectedSelfName # normalized.selfName
    THEN "x-self-name mismatch"
  ELSE IF policy.expectedAccessToken # <<>>
          /\ ~matchAuthorization(policy.expectedAccessToken, normalized.authorization)
    THEN "authorization mismatch"
  ELSE ""

(***************************************************************************)
(* Inbound requests of the reverse server.                                 *)
(***************************************************************************)
NameA == <<"A">>
NameB == <<"B">>
RNames == {NameA, NameB}
ROrigins == {<<"o">>, <<"p">>}
Token == <<"t">>
RawNames == {<<>>, NameA, NameB, <<"A", " ">>}
RawOrigins == {<<>>} \cup ROrigins
RawAuths == {<<>>, Token, BearerPrefix \o Token, <<" ">> \o bearerPrefix \o <<" ">> \o Token,
             <<"x">>, BearerPrefix \o <<"x">>, <<"B", "e", "a", "r", "e", "r">>}
AccessTokens == {<<>>, Token, <<"B", "E", "A", "R", "E", "R", " ">> \o Token \o <<" ">>}
\* requests that differ in the identity and origin they declare
RegistryRequests == [selfName : RawNames, origin : RawOrigins, authorization : {<<>>}]
\* requests that differ in the authorization they carry
AuthRequests == [selfName : {<<>>, NameA}, origin : {<<>>, <<"o">>}, authorization : RawAuths]
\* requests that declare a name and nothing else
PlainRequests == [selfName : RNames, origin : {<<>>}, authorization : {<<>>}]

(***************************************************************************)
(* ReverseConnection over the ws library's WebSocketServer.                *)
(*                                                                         *)
(* The Maps are functions over the names and origins an inbound request    *)
(* can declare; 0 and <<>> stand for a key the Map does not hold.          *)
(***************************************************************************)
\* the connection, its servers and inbound sockets while a step runs; `e`
\* collects the events emitted, `ret` the promise connect() returns (0: it
\* returns at once), `reason` why handleConnection rejected, `await` the
\* socket whose close closeSocket waits for, `sent` whether the payload of
\* send() was handed to the socket, `beat` the socket a heartbeat monitor
\* pinged or terminated
RWorld == [r |-> rev, sv |-> servers, p |-> peers, cl |-> rclose, e |-> <<>>,
           ret |-> 0, made |-> 0, reason |-> "", await |-> 0, sent |-> FALSE,
           beat |-> 0]

REv(type, selfName, attempt, delay) ==
  [type |-> type, selfName |-> selfName, attempt |-> attempt, delay |-> delay]
remit(w, ev) == [w EXCEPT !.e = Append(@, ev)]

\* socket.close(code, reason) of the ws library: only an open socket starts closing
socketClose(w, s, code, reason) ==
  IF w.p[s].readyState # "OPEN" THEN w
  ELSE [w EXCEPT !.p[s].readyState = "CLOSING", !.p[s].closeCode = code,
                 !.p[s].closeReason = reason]

revStopHeartbeat(w, selfName) ==
  LET stop == w.r.heartbeatStops[selfName]
  IN IF stop = 0 THEN w
     ELSE [w EXCEPT !.p[stop].monitor = FALSE, !.r.heartbeatStops[selfName] = 0]

\* mutant: the origin maps keep the entries of a socket that is gone
cleanupConnectionKeepsOrigin(w, selfName, socket) ==
  IF w.r.sockets[selfName] # socket THEN w
  ELSE revStopHeartbeat([w EXCEPT !.r.sockets[selfName] = 0], selfName)

\* mutant: the close of any socket of the name clears the name's registration
cleanupConnectionAnySocket(w, selfName, socket) ==
  LET w1 == revStopHeartbeat([w EXCEPT !.r.sockets[selfName] = 0], selfName)
      origin == w1.r.originBySelfName[selfName]
  IN IF origin = <<>> THEN w1
     ELSE [w1 EXCEPT !.r.originBySelfName[selfName] = <<>>,
                     !.r.selfNameByOrigin[origin] = IF @ = selfName THEN <<>> ELSE @]

cleanupConnection(w, selfName, socket) ==
  IF w.r.sockets[selfName] # socket THEN w
  ELSE LET w1 == revStopHeartbeat([w EXCEPT !.r.sockets[selfName] = 0], selfName)
           origin == w1.r.originBySelfName[selfName]
       IN IF origin = <<>> THEN w1
          ELSE [w1 EXCEPT !.r.originBySelfName[selfName] = <<>>,
                          !.r.selfNameByOrigin[origin] = IF @ = selfName THEN <<>> ELSE @]

\* mutant: a rejected socket is closed as a normal closure
rejectInboundNormally(w, s, reason) ==
  [socketClose(w, s, 1000, reason) EXCEPT !.reason = reason]

\* the `reject` closure of handleConnection
rejectInbound(w, s, reason) ==
  [socketClose(w, s, 1008, reason) EXCEPT !.reason = reason]

\* handleConnection lines 233-251: socket s takes over selfName in the Maps
takeOver(w, s, selfName, incomingOrigin) ==
  LET w1 == revStopHeartbeat(w, selfName)
      previousOrigin == w1.r.originBySelfName[selfName]
      w2 == IF previousOrigin # <<>> /\ w1.r.selfNameByOrigin[previousOrigin] = selfName
              THEN [w1 EXCEPT !.r.selfNameByOrigin[previousOrigin] = <<>>]
              ELSE w1
      w3 == [w2 EXCEPT !.r.originBySelfName[selfName] = <<>>, !.r.sockets[selfName] = s]
      w4 == IF incomingOrigin # <<>>
              THEN [w3 EXCEPT !.r.originBySelfName[selfName] = incomingOrigin,
                              !.r.selfNameByOrigin[incomingOrigin] = selfName]
              ELSE w3
  IN [w4 EXCEPT !.p[s].monitor = (rcfg.heartbeatIntervalMs > 0),
                !.r.heartbeatStops[selfName] = s]

\* mutant: a returning name is announced like a new one
announceSilently(w, s, selfName) ==
  LET count == w.r.connectionCounts[selfName] + 1
      w1 == [w EXCEPT !.r.connectionCounts[selfName] = count]
  IN [remit(w1, REv("open", selfName, 0, 0)) EXCEPT !.p[s].selfName = selfName]

\* handleConnection lines 253-269: the count, the notifications, the listeners
announce(w, s, selfName) ==
  LET count == w.r.connectionCounts[selfName] + 1
      w1 == [w EXCEPT !.r.connectionCounts[selfName] = count]
      w2 == IF count > 1 THEN remit(w1, REv("reconnect", selfName, count - 1, 0)) ELSE w1
  IN [remit(w2, REv("open", selfName, 0, 0)) EXCEPT !.p[s].selfName = selfName]

\* mutant: the prior socket is left open
closePriorNever(w, existing) == w

\* handleConnection lines 271-273
closePrior(w, existing) ==
  IF existing # 0 /\ w.p[existing].readyState = "OPEN"
    THEN socketClose(w, existing, 1001, "replaced by new connection")
    ELSE w

\* handleConnection once the request has passed every check: lines 233-273
registerInbound(w, s, selfName, incomingOrigin) ==
  LET existing == w.r.sockets[selfName]
  IN closePrior(announce(takeOver(w, s, selfName, incomingOrigin), s, selfName), existing)

\* mutant: an origin that is already bound is accepted
handleConnectionAnyOrigin(w, s, request) ==
  LET normalized == normalizeHeaderValue(request)
      policy == rcfg.headerPolicy
      invalid == validateNormalizedHeaders(normalized, policy)
  IN IF invalid # "" THEN rejectInbound(w, s, invalid)
     ELSE IF /\ ~policy.strict
             /\ policy.expectedAccessToken # <<>>
             /\ ~matchAuthorization(policy.expectedAccessToken, normalized.authorization)
       THEN rejectInbound(w, s, "authorization mismatch")
     ELSE IF normalized.selfName = <<>> THEN rejectInbound(w, s, "missing x-self-name header")
     ELSE registerInbound(w, s, normalized.selfName, normalized.origin)

handleConnection(w, s, request) ==
  LET normalized == normalizeHeaderValue(request)
      policy == rcfg.headerPolicy
      invalid == validateNormalizedHeaders(normalized, policy)
      incomingOrigin == normalized.origin
      selfName == normalized.selfName
  IN IF invalid # "" THEN rejectInbound(w, s, invalid)
     ELSE IF /\ ~policy.strict
             /\ policy.expectedAccessToken # <<>>
             /\ ~matchAuthorization(policy.expectedAccessToken, normalized.authorization)
       THEN rejectInbound(w, s, "authorization mismatch")
     ELSE IF /\ rcfg.rejectDuplicateOrigin
             /\ incomingOrigin # <<>>
             /\ w.r.selfNameByOrigin[incomingOrigin] # <<>>
       THEN rejectInbound(w, s, "duplicate client origin")
     ELSE IF selfName = <<>> THEN rejectInbound(w, s, "missing x-self-name header")
     ELSE registerInbound(w, s, selfName, incomingOrigin)

\* closeSocket up to its await
closeSocket(w, selfName, code, reason) ==
  LET socket == w.r.sockets[selfName]
  IN IF socket = 0 THEN [w EXCEPT !.await = 0]
     ELSE LET w1 == revStopHeartbeat(w, selfName)
          IN IF w1.p[socket].readyState = "CLOSED"
               THEN [cleanupConnection(remit(w1, REv("close", selfName, 0, 0)),
                                       selfName, socket) EXCEPT !.await = 0]
               ELSE [socketClose(w1, socket, code, reason) EXCEPT !.await = socket]

\* the setInterval callback of the monitor of inbound socket s
revHeartbeatTick(w, s, timedOut) ==
  IF w.p[s].readyState # "OPEN" THEN w
  ELSE IF timedOut THEN [w EXCEPT !.p[s].readyState = "CLOSING", !.beat = s]
  ELSE [w EXCEPT !.beat = s]

\* mutant: send() hands the payload to whatever socket is registered
revSendUnchecked(w, selfName) ==
  IF w.r.sockets[selfName] = 0 THEN [w EXCEPT !.reason = "WebSocket is not open"]
  ELSE [w EXCEPT !.sent = TRUE]

\* ReverseConnection.send up to the socket's send
revSend(w, selfName) ==
  LET socket == w.r.sockets[selfName]
  IN IF socket = 0 \/ w.p[socket].readyState # "OPEN"
       THEN [w EXCEPT !.reason = "WebSocket is not open"]
       ELSE [w EXCEPT !.sent = TRUE]

NewServer == [state |-> "binding", bind |-> "pending", listening |-> FALSE]

\* ReverseConnection.connect
revConnect(w) ==
  IF w.r.server # 0 THEN [w EXCEPT !.ret = 0]
  ELSE IF w.r.connectPromise # 0 THEN [w EXCEPT !.ret = w.r.connectPromise]
  ELSE LET n == Len(w.sv) + 1
       IN [w EXCEPT !.sv = Append(@, NewServer), !.r.server = n,
                    !.r.connectPromise = n, !.ret = n, !.made = n]

\* resolve()/reject() of the bind of server n and the .finally() that follows
settleBind(w, n, state) ==
  IF w.sv[n].bind # "pending" THEN w
  ELSE [w EXCEPT !.sv[n].bind = state, !.r.connectPromise = 0]

\* handleListening and handleError of the connect() that constructed server n
handleListening(w, n) == settleBind([w EXCEPT !.sv[n].listening = TRUE], n, "resolved")
\* mutant: a failed bind leaves this.server set
handleServerErrorKeepsServer(w, n) ==
  IF ~w.sv[n].listening THEN settleBind(w, n, "rejected")
  ELSE w

handleServerError(w, n) ==
  IF ~w.sv[n].listening THEN settleBind([w EXCEPT !.r.server = 0], n, "rejected")
  ELSE w

\* close() with no name after its Promise.all: the server is closed, and
\* this.server is cleared once the callback of server.close() has run
closeServer(w) ==
  IF w.r.server = 0 THEN [w EXCEPT !.cl.phase = "done"]
  ELSE IF w.sv[w.r.server].state \in {"closed", "failed"}
    THEN [w EXCEPT !.r.server = 0, !.cl.phase = "done"]
  ELSE [w EXCEPT !.sv[w.r.server].state = "closing", !.cl.phase = "server",
                 !.cl.server = w.r.server]

\* a socket closeSocket waited for has closed
closeSocketResumed(w, s) ==
  IF w.cl.phase # "sockets" THEN w
  ELSE LET w1 == [w EXCEPT !.cl.waiting = @ \ {s}]
       IN IF w1.cl.waiting = {} THEN closeServer(w1) ELSE w1

\* close() with no name when it is called: closeSocket for every name of the Map
RECURSIVE closeSockets(_, _)
closeSockets(w, names) ==
  IF names = {} THEN w
  ELSE LET name == CHOOSE n \in names : TRUE
           w1 == closeSocket(w, name, 1000, "client closing")
           w2 == IF w1.await = 0 THEN w1 ELSE [w1 EXCEPT !.cl.waiting = @ \cup {w1.await}]
       IN closeSockets(w2, names \ {name})

revClose(w) ==
  LET names == {n \in RNames : w.r.sockets[n] # 0}
      w1 == closeSockets([w EXCEPT !.cl.phase = "sockets", !.cl.waiting = {},
                                   !.cl.calls = @ + 1], names)
  IN IF w1.cl.waiting = {} THEN closeServer(w1) ELSE w1

NewPeer == [readyState |-> "OPEN", selfName |-> <<>>, closeCode |-> 0, closeReason |-> "",
            monitor |-> FALSE]

\* a step ends: the fields are written back and the step is recorded
RCommit(w, op, arg) ==
  /\ Len(w.p) <= MaxPeers
  /\ Len(w.sv) <= MaxServers
  /\ w.cl.calls <= MaxCloses
  /\ rev' = w.r
  /\ servers' = w.sv
  /\ peers' = w.p
  /\ rclose' = w.cl
  /\ robs' = [op |-> op, arg |-> arg, events |-> w.e, ret |-> w.ret, made |-> w.made,
              reason |-> w.reason, sent |-> w.sent, beat |-> w.beat]
  /\ UNCHANGED rcfg

RInit ==
  /\ rcfg \in [headerPolicy : [strict : BOOLEAN, expectedSelfName : {<<>>},
                                expectedAccessToken : AccessTokens],
                rejectDuplicateOrigin : BOOLEAN,
                heartbeatIntervalMs : HeartbeatIntervals]
  /\ rev = [server |-> 0, connectPromise |-> 0,
            sockets |-> [n \in RNames |-> 0],
            heartbeatStops |-> [n \in RNames |-> 0],
            connectionCounts |-> [n \in RNames |-> 0],
            originBySelfName |-> [n \in RNames |-> <<>>],
            selfNameByOrigin |-> [o \in ROrigins |-> <<>>]]
  /\ servers = <<>>
  /\ peers = <<>>
  /\ rclose = [phase |-> "idle", waiting |-> {}, server |-> 0, calls |-> 0]
  /\ robs = [op |-> "new", arg |-> <<>>, events |-> <<>>, ret |-> 0, made |-> 0,
             reason |-> "", sent |-> FALSE, beat |-> 0]

\* connect() called by the owner of the connection
RConnect == RCommit(revConnect(RWorld), "connect", <<>>)

\* server n starts listening
ServerListening(n) ==
  /\ servers[n].state = "binding"
  /\ RCommit(handleListening([RWorld EXCEPT !.sv[n].state = "listening"], n),
             "listening", <<>>)

\* server n emits 'error': it fails to bind, or it reports an error while it
\* listens and goes on listening
ServerError(n) ==
  /\ servers[n].state \in {"binding", "listening"}
  /\ RCommit(handleServerError([RWorld EXCEPT !.sv[n].state =
                                  IF @ = "binding" THEN "failed" ELSE @], n),
             "serverError", <<>>)

\* server n hands an upgraded socket and its request to handleConnection
Inbound(n, request) ==
  /\ servers[n].state = "listening"
  /\ RCommit(handleConnection([RWorld EXCEPT !.p = Append(@, NewPeer)], Len(peers) + 1,
                              request),
             "connection", normalizeHeaderValue(request))

\* inbound socket s closes: the 'close' listeners run in the order attached,
\* handleConnection's first, then closeSocket's
PeerClose(s) ==
  /\ peers[s].readyState \in {"OPEN", "CLOSING"}
  /\ LET selfName == peers[s].selfName
         w == [RWorld EXCEPT !.p[s].readyState = "CLOSED"]
         w1 == IF selfName = <<>> THEN w
               ELSE cleanupConnection(remit(w, REv("close", selfName, 0, 0)), selfName, s)
     IN RCommit(closeSocketResumed(w1, s), "socketClose", selfName)

\* the interval timer of the monitor of inbound socket s fires
RHeartbeatTick(s, timedOut) ==
  /\ peers[s].monitor
  /\ RCommit(revHeartbeatTick(RWorld, s, timedOut), "heartbeat", peers[s].selfName)

\* send(payload, selfName) called by the owner of the connection
RSend(selfName) == RCommit(revSend(RWorld, selfName), "send", selfName)

\* close(code, reason, selfName) called by the owner of the connection
RCloseName(selfName) ==
  RCommit(closeSocket(RWorld, selfName, 1000, "client closing"), "closeName", selfName)

\* close() with no name called by the owner of the connection
RCloseAll ==
  /\ rclose.phase \in {"idle", "done"}
  /\ RCommit(revClose(RWorld), "close", <<>>)

\* the callback of server.close() runs for server n
ServerClosed(n) ==
  /\ servers[n].state = "closing"
  /\ LET w == [RWorld EXCEPT !.sv[n].state = "closed"]
     IN RCommit(IF w.cl.phase = "server" /\ w.cl.server = n
                  THEN [w EXCEPT !.r.server = 0, !.cl.phase = "done"]
                  ELSE w,
               "serverClosed", <<>>)

(***************************************************************************)
(* ForwardConnectionPool: one ForwardConnection per configured entry, all  *)
(* constructed with the pool's options.                                    *)
(***************************************************************************)
PoolNames == {"A", "B"}

\* the ForwardConnection of entry n while a step runs
PoolWorld(n) == [c |-> pool[n].c, s |-> pool[n].s, p |-> pool[n].p, e |-> <<>>,
                 ret |-> 0, made |-> 0, err |-> "", sent |-> FALSE, beat |-> 0, src |-> 0]

\* ForwardConnectionPool.isOpen(selfName) for a configured entry
poolIsOpen(pl, n) == pl[n].c.ws # 0 /\ pl[n].s[pl[n].c.ws].readyState = "OPEN"

\* Promise.all over the promises connect() returned: waits[n] is the attempt of
\* entry n the call still waits for, 0 once that entry's promise has resolved
promiseAll(call, pl) ==
  IF call.state # "pending" THEN call
  ELSE IF \E n \in PoolNames : call.waits[n] # 0 /\ pl[n].p[call.waits[n]] = "rejected"
    THEN [call EXCEPT !.state = "rejected"]
  ELSE LET waits == [n \in PoolNames |->
                       IF call.waits[n] # 0 /\ pl[n].p[call.waits[n]] = "resolved"
                         THEN 0 ELSE call.waits[n]]
       IN IF \A n \in PoolNames : waits[n] = 0
            THEN [call EXCEPT !.state = "resolved", !.waits = waits]
            ELSE [call EXCEPT !.waits = waits]

\* a step of entry n ends; `disturbs` says whether it called close() on the
\* entry, failed its attempt or closed the socket this.ws refers to
PoolCommit(n, w, op, disturbs) ==
  /\ Len(w.s) <= MaxPoolSockets
  /\ pool' = [pool EXCEPT ![n] = [c |-> w.c, s |-> w.s, p |-> w.p]]
  /\ pcall' = promiseAll([pcall EXCEPT !.disturbed[n] = @ \/ disturbs], pool')
  /\ pobs' = [op |-> op, name |-> n, events |-> w.e]

PoolInit ==
  /\ pool = [n \in PoolNames |->
               [c |-> [ws |-> 0, connectPromise |-> 0, closing |-> FALSE,
                       reconnectAttempt |-> 0,
                       reconnectDelayMs |-> opts.reconnectIntervalMs,
                       reconnectTimer |-> FALSE, heartbeatStop |-> 0],
                s |-> <<>>, p |-> <<>>]]
  /\ pcall = [state |-> "idle", waits |-> [n \in PoolNames |-> 0],
              disturbed |-> [n \in PoolNames |-> FALSE], calls |-> 0]
  /\ pobs = [op |-> "new", name |-> "", events |-> <<>>]

\* pool.connect() with no name: connect() of every entry, then Promise.all
PoolConnect ==
  LET ws == [n \in PoolNames |-> connect(PoolWorld(n))]
  IN /\ pcall.state # "pending"
     /\ pcall.calls < MaxPoolCalls
     /\ \A n \in PoolNames : Len(ws[n].s) <= MaxPoolSockets
     /\ pool' = [n \in PoolNames |-> [c |-> ws[n].c, s |-> ws[n].s, p |-> ws[n].p]]
     /\ pcall' = promiseAll([state |-> "pending",
                             waits |-> [n \in PoolNames |-> ws[n].ret],
                             disturbed |-> [n \in PoolNames |-> FALSE],
                             calls |-> pcall.calls + 1], pool')
     /\ pobs' = [op |-> "connect", name |-> "", events |-> <<>>]

\* pool.close(code, reason, selfName) up to its await
PoolClose(n) == PoolCommit(n, close(PoolWorld(n)), "close", TRUE)

PoolReconnectTimerFire(n) ==
  /\ pool[n].c.reconnectTimer
  /\ PoolCommit(n, connect([PoolWorld(n) EXCEPT !.c.reconnectTimer = FALSE]),
                "reconnectTimer", FALSE)

PoolConnectTimeoutFire(n, s) ==
  /\ pool[n].s[s].connectTimeout
  /\ LET w == rejectAttempt([PoolWorld(n) EXCEPT !.s[s].connectTimeout = FALSE], s,
                           "connect timeout")
     IN PoolCommit(n, terminate(w, s), "connectTimeout", TRUE)

PoolSocketOpen(n, s) ==
  /\ pool[n].s[s].readyState = "CONNECTING"
  /\ LET w == [PoolWorld(n) EXCEPT !.s[s].readyState = "OPEN"]
     IN PoolCommit(n, IF w.s[s].handshake THEN handleOpen(w, s) ELSE w, "socketOpen", FALSE)

PoolSocketError(n, s) ==
  /\ pool[n].s[s].readyState = "CONNECTING"
  /\ PoolCommit(n, abortHandshake(PoolWorld(n), s), "socketError", TRUE)

PoolSocketClose(n, s) ==
  /\ pool[n].s[s].readyState \in {"OPEN", "CLOSING"}
  /\ PoolCommit(n, handleClose([PoolWorld(n) EXCEPT !.s[s].readyState = "CLOSED"]),
                "socketClose", pool[n].c.ws = s)

(***************************************************************************)
(* connection/heartbeat.ts with a clock.  Date.now() enters the code only  *)
(* through now - lastPong, kept as sincePong; the interval timer is kept   *)
(* as the time left until it is due.  A tick may run late, never early.    *)
(***************************************************************************)
\* options.ts: the timeout that goes with an interval
normalizeHeartbeatTimeout(intervalMs, timeoutMs) ==
  IF intervalMs = 0 THEN 0
  ELSE IF timeoutMs = 0 THEN intervalMs * 2
  ELSE timeoutMs

\* no timeout exceeds this, so elapsed time is counted no further
MaxElapsed == 2 * MaxIntervalMs + MaxTimeoutMs + 1

HbInit ==
  \E intervalMs \in 0..MaxIntervalMs, timeoutMs \in 0..MaxTimeoutMs :
    hb = [intervalMs |-> intervalMs,
          timeoutMs |-> normalizeHeartbeatTimeout(intervalMs, timeoutMs),
          readyState |-> "OPEN",
          started |-> FALSE,      \* startHeartbeat() was called
          timer |-> FALSE,        \* the interval timer and the pong listener exist
          sincePong |-> 0,        \* Date.now() - lastPong
          untilDue |-> 0,         \* time until the interval timer is due
          answering |-> TRUE,     \* the peer answers pings
          unanswered |-> FALSE,   \* a ping is out and its pong has not come
          did |-> "none"]         \* what the last step's timer callback did

callbackAtTimeout(h) ==
  IF h.readyState # "OPEN" THEN [h EXCEPT !.did = "skip"]
  ELSE IF h.timeoutMs > 0 /\ h.sincePong >= h.timeoutMs
    THEN [h EXCEPT !.did = "terminate", !.readyState = "CLOSING"]
  ELSE [h EXCEPT !.did = "ping", !.unanswered = TRUE]

\* the setInterval callback
heartbeatCallback(h) ==
  IF h.readyState # "OPEN" THEN [h EXCEPT !.did = "skip"]
  ELSE IF h.timeoutMs > 0 /\ h.sincePong > h.timeoutMs
    THEN [h EXCEPT !.did = "terminate", !.readyState = "CLOSING"]
  ELSE [h EXCEPT !.did = "ping", !.unanswered = TRUE]

\* startHeartbeat(ws, options), called as the socket opens
HbStart ==
  /\ ~hb.started
  /\ hb.readyState = "OPEN"
  /\ hb' = IF hb.intervalMs <= 0
             THEN [hb EXCEPT !.started = TRUE, !.did = "none"]
             ELSE [hb EXCEPT !.started = TRUE, !.timer = TRUE, !.sincePong = 0,
                             !.untilDue = hb.intervalMs, !.did = "none"]

\* a millisecond passes
HbAdvance ==
  /\ hb.timer
  /\ hb' = [hb EXCEPT !.sincePong = Min(hb.sincePong + 1, MaxElapsed),
                      !.untilDue = IF hb.untilDue > 0 THEN hb.untilDue - 1 ELSE 0,
                      !.did = "none"]

\* the interval timer fires and is armed again
HbTick ==
  /\ hb.timer
  /\ hb.untilDue = 0
  /\ hb' = [heartbeatCallback(hb) EXCEPT !.untilDue = hb.intervalMs]

\* the peer's pong arrives: handlePong
HbPong ==
  /\ hb.timer
  /\ hb.readyState = "OPEN"
  /\ hb.answering
  /\ hb.unanswered
  /\ hb' = [hb EXCEPT !.sincePong = 0, !.unanswered = FALSE, !.did = "none"]

\* the peer stops answering: pings sent from now on, and the one that is
\* out, get no pong
HbPeerSilent ==
  /\ hb.started
  /\ hb.readyState = "OPEN"
  /\ hb.answering
  /\ hb' = [hb EXCEPT !.answering = FALSE, !.unanswered = FALSE, !.did = "none"]

\* the socket closes and its owner calls the stop function
HbSocketClose ==
  /\ hb.started
  /\ hb.readyState \in {"OPEN", "CLOSING"}
  /\ hb' = [hb EXCEPT !.readyState = "CLOSED", !.timer = FALSE, !.did = "none"]


(***************************************************************************)
(* headers.ts: buildHeaders.  An optional string is <<>> when undefined    *)
(* and <<str>> when given.  The caller's headers are the entries of its    *)
(* object, in order; each header is given once, under either spelling.     *)
(***************************************************************************)
HEADER_SELF_NAME == "x-self-name"
HEADER_CLIENT_ORIGIN == "x-client-origin"
HEADER_AUTHORIZATION == "authorization"
\* 'queqiao-node-sdk', and the origin of another implementation
SDK_CLIENT_ORIGIN == <<"q">>
OtherOrigin == <<"o">>

\* key.toLowerCase() on the keys callers use
keyToLowerCase(key) ==
  CASE key = "X-Self-Name" -> "x-self-name"
    [] key = "X-Client-Origin" -> "x-client-origin"
    [] key = "Authorization" -> "authorization"
    [] key = "X-Extra" -> "x-extra"
    [] OTHER -> key

NoHeaders == [k \in {} |-> <<>>]
setHeader(headers, key, value) ==
  [k \in DOMAIN headers \cup {key} |-> IF k = key THEN value ELSE headers[k]]

\* normalizeHeaderValue over the entries of a caller's object
RECURSIVE normalizeEntries(_, _)
normalizeEntries(entries, normalized) ==
  IF entries = <<>> THEN normalized
  ELSE LET value == Head(entries).value
           lowered == keyToLowerCase(Head(entries).key)
           trimmed == trim(value)
       IN normalizeEntries(Tail(entries),
            IF value = <<>> \/ trimmed = <<>> THEN normalized
            ELSE setHeader(normalized, lowered, trimmed))

\* utils.ts normalizeOptionalString on undefined or a string
normalizeOptionalString(value, field) ==
  IF value = <<>> THEN [ok |-> TRUE, value |-> <<>>]
  ELSE IF trim(value[1]) = <<>> THEN [ok |-> FALSE, error |-> "cannot be empty", key |-> field]
  ELSE [ok |-> TRUE, value |-> <<trim(value[1])>>]

\* mutant: authorization is compared as written
assertHeaderMatchAsWritten(headers, key, value) ==
  /\ key \in DOMAIN headers
  /\ headers[key] # value

\* assertHeaderMatch: TRUE when it throws 'Header conflict: <key>'
assertHeaderMatch(headers, key, value) ==
  IF key \notin DOMAIN headers THEN FALSE
  ELSE IF key = HEADER_AUTHORIZATION
    THEN normalizeBearer(headers[key]) # normalizeBearer(value)
  ELSE headers[key] # value

Threw(message, key) == [ok |-> FALSE, error |-> message, key |-> key, headers |-> NoHeaders]

buildHeaders(input) ==
  LET base == normalizeEntries(input.headers, NoHeaders)
      selfName == normalizeOptionalString(input.selfName, "selfName")
      accessToken == normalizeOptionalString(input.accessToken, "accessToken")
  IN IF ~selfName.ok THEN Threw(selfName.error, selfName.key)
     ELSE IF ~accessToken.ok THEN Threw(accessToken.error, accessToken.key)
     ELSE IF selfName.value # <<>> /\ assertHeaderMatch(base, HEADER_SELF_NAME, selfName.value[1])
       THEN Threw("Header conflict", HEADER_SELF_NAME)
     ELSE LET base1 == IF selfName.value # <<>>
                         THEN setHeader(base, HEADER_SELF_NAME, selfName.value[1])
                         ELSE base
          IN IF assertHeaderMatch(base1, HEADER_CLIENT_ORIGIN, SDK_CLIENT_ORIGIN)
               THEN Threw("Header conflict", HEADER_CLIENT_ORIGIN)
             ELSE LET base2 == setHeader(base1, HEADER_CLIENT_ORIGIN, SDK_CLIENT_ORIGIN)
                      token == IF accessToken.value # <<>>
                                 THEN normalizeBearer(accessToken.value[1]) ELSE <<>>
                  IN IF accessToken.value = <<>>
                       THEN [ok |-> TRUE, error |-> "", key |-> "", headers |-> base2]
                     ELSE IF assertHeaderMatch(base2, HEADER_AUTHORIZATION, token)
                       THEN Threw("Header conflict", HEADER_AUTHORIZATION)
                     ELSE [ok |-> TRUE, error |-> "", key |-> "", headers |-> 
                             setHeader(base2, HEADER_AUTHORIZATION, token)]

\* the strings callers write: names, origins, tokens and authorization values
BlankString == <<" ">>
NameStrings == {<<"a">>, <<" ", "a">>, <<"b">>}
OriginStrings == {SDK_CLIENT_ORIGIN, <<"q", " ">>, OtherOrigin}
TokenStrings == {<<"t">>, <<"t", " ">>, <<"u">>,
                 <<"B", "e", "a", "r", "e", "r", " ", "t">>,
                 <<"b", "E", "a", "r", "e", "r", " ", " ", "t">>}
Optional(strings) == {<<>>} \cup {<<str>> : str \in strings}
\* a header the caller gives or leaves out, under one of the key's spellings
HeaderChoice(keys, strings) ==
  {<<>>} \cup {<<[key |-> k, value |-> v]>> : k \in keys, v \in strings}

BuildInputs ==
  {[fn |-> "buildHeaders",
    headers |-> self \o origin \o auth \o extra,
    selfName |-> selfName, accessToken |-> accessToken] :
     self \in HeaderChoice({"x-self-name", "X-Self-Name"}, NameStrings),
     origin \in HeaderChoice({"X-Client-Origin"}, OriginStrings \cup {BlankString}),
     auth \in HeaderChoice({"authorization", "Authorization"}, TokenStrings),
     extra \in HeaderChoice({"X-Extra"}, {<<"a", " ">>}),
     selfName \in Optional(NameStrings \cup {BlankString}),
     accessToken \in Optional(TokenStrings \cup {BlankString})}
MatchInputs ==
  {[fn |-> "matchAuthorization", expectedToken |-> expected, incoming |-> incoming] :
     expected \in TokenStrings, incoming \in TokenStrings \cup {<<>>}}

HdIdle == [args |-> [fn |-> "none"], called |-> FALSE, result |-> FALSE]
HdInit ==
  \E args \in BuildInputs \cup MatchInputs :
    hd = [args |-> args, called |-> FALSE, result |-> FALSE]

\* buildHeaders(input) is called
BuildHeaders ==
  /\ ~hd.called
  /\ hd.args.fn = "buildHeaders"
  /\ hd' = [hd EXCEPT !.called = TRUE, !.result = buildHeaders(hd.args)]

\* matchAuthorization(expectedToken, incoming) is called
MatchAuthorization ==
  /\ ~hd.called
  /\ hd.args.fn = "matchAuthorization"
  /\ hd' = [hd EXCEPT !.called = TRUE,
                      !.result = matchAuthorization(hd.args.expectedToken, hd.args.incoming)]


(***************************************************************************)
(* ForwardConnectionPool with add() and remove().  dyn.objs holds every    *)
(* ForwardConnection constructed, dyn.connections the Map's values in      *)
(* insertion order, dyn.removes the remove() calls waiting in close().     *)
(* Names are the x-self-name strings buildHeaders returns.                 *)
(***************************************************************************)
DynNames == {<<"a">>, <<"b">>}
DynConfigs ==
  {[headers |-> header, selfName |-> selfName] :
     header \in HeaderChoice({"X-Self-Name"}, {<<"b">>}),
     selfName \in Optional({<<" ", "a">>, <<"b">>})}

\* options.ts normalizeForwardConnection with the pool's headerDefaults,
\* which carry no name and no headers
normalizeForwardConnection(input) ==
  LET built == buildHeaders([headers |-> input.headers, selfName |-> input.selfName,
                             accessToken |-> <<>>])
  IN IF ~built.ok THEN [ok |-> FALSE, error |-> built.error, selfName |-> <<>>]
     ELSE IF HEADER_SELF_NAME \notin DOMAIN built.headers
       THEN [ok |-> FALSE, error |-> "Header x-self-name is required", selfName |-> <<>>]
     ELSE [ok |-> TRUE, error |-> "", selfName |-> built.headers[HEADER_SELF_NAME]]

NewConnection(selfName) ==
  [name |-> selfName,
   c |-> [ws |-> 0, connectPromise |-> 0, closing |-> FALSE, reconnectAttempt |-> 0,
          reconnectDelayMs |-> opts.reconnectIntervalMs, reconnectTimer |-> FALSE,
          heartbeatStop |-> 0],
   s |-> <<>>, p |-> <<>>,
   attached |-> TRUE,     \* the pool's listeners are on the connection
   removed |-> FALSE]     \* a remove() of it has run to its end

\* the pool while a step runs: e collects what the pool emits, acted the
\* connections the step called a method of, sent the one it sent through
DynWorld == [objs |-> dyn.objs, connections |-> dyn.connections, removes |-> dyn.removes,
             e |-> <<>>, err |-> "", acted |-> {}, sent |-> 0]

\* this.connections.get(selfName); 0 for undefined
getConnection(d, selfName) ==
  IF \E i \in 1..Len(d.connections) : d.objs[d.connections[i]].name = selfName
    THEN d.connections[CHOOSE i \in 1..Len(d.connections) :
                         d.objs[d.connections[i]].name = selfName]
    ELSE 0

\* list()
dynList(d) == [i \in 1..Len(d.connections) |-> d.objs[d.connections[i]].name]

\* connection o as the ForwardConnection operators see it
ObjWorld(d, o) == [c |-> d.objs[o].c, s |-> d.objs[o].s, p |-> d.objs[o].p, e |-> <<>>,
                   ret |-> 0, made |-> 0, err |-> "", sent |-> FALSE, beat |-> 0, src |-> 0]

\* the listeners addConnectionInternal attached re-emit with the name
tagged(events, selfName) ==
  [i \in 1..Len(events) |-> [type |-> events[i].type, name |-> selfName]]

\* connection o has run w; what it emitted reaches the pool's listeners
store(d, o, w) ==
  [d EXCEPT !.objs[o].c = w.c, !.objs[o].s = w.s, !.objs[o].p = w.p,
            !.e = IF d.objs[o].attached THEN @ \o tagged(w.e, d.objs[o].name) ELSE @,
            !.sent = IF w.sent THEN o ELSE @]

dynIsOpen(d, o) == d.objs[o].c.ws # 0 /\ d.objs[o].s[d.objs[o].c.ws].readyState = "OPEN"

\* remove() after its await: the socket close() waited for has closed
removeContinues(d) ==
  LET done == {r \in d.removes : d.objs[r.obj].s[r.sock].readyState = "CLOSED"}
      gone == {d.objs[r.obj].name : r \in done}
  IN [d EXCEPT !.objs = [o \in 1..Len(d.objs) |->
                           IF \E r \in done : r.obj = o
                             THEN [d.objs[o] EXCEPT !.attached = FALSE, !.removed = TRUE]
                             ELSE d.objs[o]],
               !.connections = SelectSeq(d.connections, LAMBDA o : d.objs[o].name \notin gone),
               !.removes = d.removes \ done]

\* mutant: a name already in the Map is registered again
addConnectionAgain(d, selfName) ==
  LET o == Len(d.objs) + 1
  IN [d EXCEPT !.objs = Append(@, NewConnection(selfName)),
               !.connections = Append(@, o)]

addConnectionInternal(d, selfName) ==
  IF getConnection(d, selfName) # 0 THEN [d EXCEPT !.err = "Duplicate x-self-name"]
  ELSE LET o == Len(d.objs) + 1
       IN [d EXCEPT !.objs = Append(@, NewConnection(selfName)),
                    !.connections = Append(@, o)]

add(d, config) ==
  LET normalized == normalizeForwardConnection(config)
  IN IF ~normalized.ok THEN [d EXCEPT !.err = normalized.error]
     ELSE addConnectionInternal(d, normalized.selfName)

\* remove(selfName): close() of the connection, then the rest at once when
\* close() had nothing to wait for, or when the socket it waits for closes
remove(d, selfName) ==
  LET o == getConnection(d, selfName)
  IN IF o = 0 THEN d
     ELSE LET d1 == [store(d, o, close(ObjWorld(d, o))) EXCEPT !.acted = @ \cup {o}]
              ws == d1.objs[o].c.ws
          IN IF ws = 0 \/ d.objs[o].c.ws = 0
               THEN [d1 EXCEPT !.objs[o].attached = FALSE, !.objs[o].removed = TRUE,
                               !.connections = SelectSeq(@, LAMBDA x : d1.objs[x].name # selfName)]
               ELSE removeContinues(
                      [d1 EXCEPT !.removes = @ \cup {[obj |-> o, sock |-> d.objs[o].c.ws]}])

\* connection.connect() / connection.close() of each of these connections
RECURSIVE connectEach(_, _)
connectEach(d, targets) ==
  IF targets = <<>> THEN d
  ELSE LET o == Head(targets)
       IN connectEach([store(d, o, connect(ObjWorld(d, o))) EXCEPT !.acted = @ \cup {o}],
                      Tail(targets))
RECURSIVE closeEach(_, _)
closeEach(d, targets) ==
  IF targets = <<>> THEN d
  ELSE LET o == Head(targets)
       IN closeEach([store(d, o, close(ObjWorld(d, o))) EXCEPT !.acted = @ \cup {o}],
                    Tail(targets))

\* connect(selfName) and close(code, reason, selfName) up to their await;
\* selfName is <<>> when omitted and <<name>> when given
dynConnect(d, selfName) ==
  IF selfName # <<>>
    THEN IF getConnection(d, selfName[1]) = 0 THEN [d EXCEPT !.err = "Unknown connection"]
         ELSE connectEach(d, <<getConnection(d, selfName[1])>>)
    ELSE connectEach(d, d.connections)
dynClose(d, selfName) ==
  IF selfName # <<>>
    THEN IF getConnection(d, selfName[1]) = 0 THEN [d EXCEPT !.err = "Unknown connection"]
         ELSE removeContinues(closeEach(d, <<getConnection(d, selfName[1])>>))
    ELSE removeContinues(closeEach(d, d.connections))

\* waitForOpen(timeoutMs, selfName) up to its await: connection.waitForOpen
\* calls connect()
dynWaitForOpen(d, selfName) ==
  IF selfName # <<>>
    THEN IF getConnection(d, selfName[1]) = 0 THEN [d EXCEPT !.err = "Unknown connection"]
         ELSE connectEach(d, <<getConnection(d, selfName[1])>>)
    ELSE IF Len(d.connections) = 1 THEN connectEach(d, d.connections)
    ELSE [d EXCEPT !.err = "Multiple connections configured"]

\* mutant: with no name given the first entry is taken
resolveFirst(d, selfName) ==
  IF selfName # <<>> THEN [ok |-> TRUE, error |-> "", selfName |-> selfName[1]]
  ELSE IF Len(d.connections) >= 1
    THEN [ok |-> TRUE, error |-> "", selfName |-> dynList(d)[1]]
  ELSE [ok |-> FALSE, error |-> "No connections configured", selfName |-> <<>>]

\* QueQiaoClient.resolveSelfName in forward mode
resolveSelfName(d, selfName) ==
  IF selfName # <<>> THEN [ok |-> TRUE, error |-> "", selfName |-> selfName[1]]
  ELSE IF Len(d.connections) = 1
    THEN [ok |-> TRUE, error |-> "", selfName |-> dynList(d)[1]]
  ELSE IF Len(d.connections) > 1
    THEN [ok |-> FALSE, error |-> "Multiple connections detected", selfName |-> <<>>]
  ELSE [ok |-> FALSE, error |-> "No connections configured", selfName |-> <<>>]

\* send(payload, selfName) of the pool
dynSend(d, selfName) ==
  IF getConnection(d, selfName) = 0 THEN [d EXCEPT !.err = "Unknown connection"]
  ELSE LET o == getConnection(d, selfName)
           w == send(ObjWorld(d, o))
       IN [store(d, o, w) EXCEPT !.acted = @ \cup {o}, !.err = w.err]

\* QueQiaoClient.request with autoConnect off, up to the socket's send:
\* resolveSelfName, ensureReady, then the pool's send
clientRequest(d, selfName) ==
  LET resolved == resolveSelfName(d, selfName)
  IN IF ~resolved.ok THEN [d EXCEPT !.err = resolved.error]
     ELSE IF getConnection(d, resolved.selfName) = 0
             \/ ~dynIsOpen(d, getConnection(d, resolved.selfName))
       THEN [d EXCEPT !.err = "WebSocket is not open. Call connect() first."]
     ELSE dynSend(d, resolved.selfName)

DynCommit(d, op, target) ==
  /\ Len(d.objs) <= MaxObjects
  /\ \A o \in 1..Len(d.objs) : Len(d.objs[o].s) <= MaxDynSockets
  /\ dyn' = [objs |-> d.objs, connections |-> d.connections, removes |-> d.removes]
  /\ dobs' = [op |-> op, target |-> target, err |-> d.err, events |-> d.e,
              acted |-> d.acted, sent |-> d.sent]

\* the constructor registers options.connections, one or two of them
DynInit ==
  /\ \E names \in {<< <<"a">> >>, << <<"a">>, <<"b">> >>} :
       dyn = [objs |-> [i \in 1..Len(names) |-> NewConnection(names[i])],
              connections |-> [i \in 1..Len(names) |-> i],
              removes |-> {}]
  /\ dobs = [op |-> "new", target |-> <<>>, err |-> "", events |-> <<>>, acted |-> {},
             sent |-> 0]

DynAdd(config) == DynCommit(add(DynWorld, config), "add", config)
DynRemove(selfName) == DynCommit(remove(DynWorld, selfName), "remove", <<selfName>>)
DynConnect(selfName) == DynCommit(dynConnect(DynWorld, selfName), "connect", selfName)
DynClose(selfName) == DynCommit(dynClose(DynWorld, selfName), "close", selfName)
DynWaitForOpen(selfName) ==
  DynCommit(dynWaitForOpen(DynWorld, selfName), "waitForOpen", selfName)
DynRequest(selfName) == DynCommit(clientRequest(DynWorld, selfName), "send", selfName)

\* the reconnect timer of connection o fires
DynReconnectTimerFire(o) ==
  /\ dyn.objs[o].c.reconnectTimer
  /\ DynCommit(store(DynWorld, o,
                     connect([ObjWorld(DynWorld, o) EXCEPT !.c.reconnectTimer = FALSE])),
               "reconnectTimer", <<dyn.objs[o].name>>)

\* socket s of connection o completes its handshake
DynSocketOpen(o, s) ==
  /\ dyn.objs[o].s[s].readyState = "CONNECTING"
  /\ LET w == [ObjWorld(DynWorld, o) EXCEPT !.s[s].readyState = "OPEN"]
     IN DynCommit(store(DynWorld, o, IF w.s[s].handshake THEN handleOpen(w, s) ELSE w),
                  "socketOpen", <<dyn.objs[o].name>>)

\* socket s of connection o fails its handshake
DynSocketError(o, s) ==
  /\ dyn.objs[o].s[s].readyState = "CONNECTING"
  /\ DynCommit(removeContinues(store(DynWorld, o, abortHandshake(ObjWorld(DynWorld, o), s))),
               "socketError", <<dyn.objs[o].name>>)

\* socket s of connection o, open or closing, is closed; a remove() that
\* waited for it goes on after the connection's own listener has run
DynSocketClose(o, s) ==
  /\ dyn.objs[o].s[s].readyState \in {"OPEN", "CLOSING"}
  /\ DynCommit(removeContinues(
                 store(DynWorld, o,
                       handleClose([ObjWorld(DynWorld, o) EXCEPT !.s[s].readyState = "CLOSED"]))),
               "socketClose", <<dyn.objs[o].name>>)


(***************************************************************************)
(* QueQiaoClient over a ReverseConnection.  The listeners the constructor  *)
(* attaches to the connection run inside the step that emits the event.    *)
(***************************************************************************)
\* the socket name as the string the pending table is scoped by
ScopeOf(selfName) == IF selfName = NameA THEN "A" ELSE "B"

\* the client while a step runs: openConnections, the pending table and the
\* notifications the client emitted
ClientWorld == [open |-> client.openConnections, t |-> Table, notes |-> <<>>]

note(c, type) == [c EXCEPT !.notes = Append(@, type)]

\* QueQiaoClient.handleOpen
clientHandleOpen(c, selfName) ==
  LET c1 == note([c EXCEPT !.open = @ \cup {selfName}], "connection_open")
  IN IF Cardinality(c1.open) = 1 THEN note(c1, "open") ELSE c1

\* QueQiaoClient.handleClose; connectionIsOpen is connection.isOpen(selfName)
\* as the listener runs
clientHandleClose(c, selfName, connectionIsOpen) ==
  LET c1 == note(c, "connection_close")
      c2 == [c1 EXCEPT !.t = rejectByConnection(@, ScopeOf(selfName), ClosedError)]
  IN IF connectionIsOpen THEN c2
     ELSE LET c3 == [c2 EXCEPT !.open = @ \ {selfName}]
          IN IF Cardinality(c3.open) = 0 THEN note(c3, "close") ELSE c3

\* the listeners of the constructor, run for the events of a step in order
RECURSIVE clientListen(_, _, _)
clientListen(c, events, connectionIsOpen) ==
  IF events = <<>> THEN c
  ELSE LET ev == Head(events)
           c1 == CASE ev.type = "open" -> clientHandleOpen(c, ev.selfName)
                   [] ev.type = "close" -> clientHandleClose(c, ev.selfName, connectionIsOpen)
                   [] ev.type = "reconnect" -> note(note(c, "connection_reconnect"), "reconnect")
                   [] OTHER -> c
       IN clientListen(c1, Tail(events), connectionIsOpen)

\* the last of the client-level 'open' and 'close' notifications
LastNote(notes, before) ==
  LET marks == SelectSeq(notes, LAMBDA x : x \in {"open", "close"})
  IN IF marks = <<>> THEN before ELSE marks[Len(marks)]

\* a step ends: the client's fields and the table are written back;
\* issuedOn records the socket each request was sent on
ClientCommit(c, issuedOn) ==
  /\ SetTable(c.t)
  /\ client' = [openConnections |-> c.open, notes |-> c.notes,
                lastNote |-> LastNote(c.notes, client.lastNote), issuedOn |-> issuedOn]

\* a step in which no listener of the client runs
ClientQuiet == client' = [client EXCEPT !.notes = <<>>]

CInit == client = [openConnections |-> {}, notes |-> <<>>, lastNote |-> "", issuedOn |-> <<>>]

\* client.connect() in reverse mode
CConnect == RConnect /\ ClientQuiet /\ UNCHANGED pvars

CServerListening(n) == ServerListening(n) /\ ClientQuiet /\ UNCHANGED pvars

\* an inbound socket is handed to handleConnection; the client hears what
\* the connection emits
CInbound(n, request) ==
  /\ Inbound(n, request)
  /\ ClientCommit(clientListen(ClientWorld, robs'.events, FALSE), client.issuedOn)
  /\ last' = Called("connection", "")
  /\ UNCHANGED <<maxRequests, inflight>>

\* inbound socket s closes; the client's listener runs as the connection
\* emits 'close', before the connection's own cleanup
CPeerClose(s) ==
  /\ PeerClose(s)
  /\ LET selfName == peers[s].selfName
         socket == IF selfName = <<>> THEN 0 ELSE rev.sockets[selfName]
         connectionIsOpen == socket \notin {0, s} /\ peers[socket].readyState = "OPEN"
     IN ClientCommit(clientListen(ClientWorld, robs'.events, connectionIsOpen),
                     client.issuedOn)
  /\ last' = Called("socketClose", "")
  /\ UNCHANGED <<maxRequests, inflight>>

\* client.request(api, data, {selfName, echo}) with autoConnect off
CRequest(selfName, echo, timeoutMs, api) ==
  LET socket == rev.sockets[selfName]
  IN IF socket = 0 \/ peers[socket].readyState # "OPEN"
       THEN /\ last' = Called("request", "WebSocket is not open. Call connect() first.")
            /\ ClientQuiet
            /\ UNCHANGED <<maxRequests, pending, promises, timers, inflight, rvars>>
       ELSE /\ Request(ScopeOf(selfName), echo, timeoutMs, api)
            /\ client' = [client EXCEPT !.notes = <<>>,
                                        !.issuedOn = IF Len(promises') > Len(promises)
                                                       THEN Append(@, socket) ELSE @]
            /\ UNCHANGED rvars

\* the socket reports the request's payload as written
CSendAck(call) == SendAck(call) /\ ClientQuiet /\ UNCHANGED rvars

\* a response arrives on the socket registered under selfName
CMessage(selfName, echo) ==
  /\ rev.sockets[selfName] # 0
  /\ peers[rev.sockets[selfName]].readyState = "OPEN"
  /\ HandleMessage(ScopeOf(selfName), echo)
  /\ ClientQuiet
  /\ UNCHANGED rvars


\* the parts of the model run apart: each leaves the others as constructed
PIdle == PInit /\ maxRequests = 0
FIdle == FInit /\ opts.reconnect /\ opts.reconnectIntervalMs = 1
               /\ opts.reconnectMaxIntervalMs = 2 /\ opts.heartbeatIntervalMs = 0
DIdle == DynInit /\ Len(dyn.objs) = 1
XIdle == HbInit /\ hb.intervalMs = 0 /\ hb.timeoutMs = 0 /\ hd = HdIdle /\ DIdle /\ CInit
RIdle == RInit /\ rcfg.headerPolicy.strict /\ rcfg.headerPolicy.expectedAccessToken = <<>>
               /\ rcfg.rejectDuplicateOrigin /\ rcfg.heartbeatIntervalMs = 0
InitForward == PIdle /\ FInit /\ RIdle /\ PoolInit /\ XIdle
InitRequests == PInit /\ FIdle /\ RIdle /\ PoolInit /\ XIdle
InitRegistry ==
  /\ PIdle /\ FIdle /\ PoolInit /\ XIdle
  /\ RInit /\ rcfg.headerPolicy.expectedAccessToken = <<>> /\ rcfg.heartbeatIntervalMs > 0
InitAuth ==
  /\ PIdle /\ FIdle /\ PoolInit /\ XIdle
  /\ RInit /\ rcfg.rejectDuplicateOrigin /\ rcfg.heartbeatIntervalMs = 0
InitServer ==
  /\ PIdle /\ FIdle /\ PoolInit /\ XIdle
  /\ RInit /\ ~rcfg.headerPolicy.strict /\ rcfg.headerPolicy.expectedAccessToken = <<>>
           /\ rcfg.rejectDuplicateOrigin
InitPool == PIdle /\ FInit /\ RIdle /\ PoolInit /\ XIdle

ForwardNext ==
  \/ Connect /\ UNCHANGED <<pvars, rvars, plvars, xvars>>
  \/ Close /\ UNCHANGED <<pvars, rvars, plvars, xvars>>
  \/ ReconnectTimerFire /\ UNCHANGED <<pvars, rvars, plvars, xvars>>
  \/ \E s \in 1..Len(sockets) : ConnectTimeoutFire(s) /\ UNCHANGED <<pvars, rvars, plvars, xvars>>
  \/ \E s \in 1..Len(sockets) : SocketOpen(s) /\ UNCHANGED <<pvars, rvars, plvars, xvars>>
  \/ \E s \in 1..Len(sockets) : SocketError(s) /\ UNCHANGED <<pvars, rvars, plvars, xvars>>
  \/ \E s \in 1..Len(sockets) : SocketClose(s) /\ UNCHANGED <<pvars, rvars, plvars, xvars>>
  \/ \E s \in 1..Len(sockets) : SocketMessage(s) /\ UNCHANGED <<pvars, rvars, plvars, xvars>>

SpecForward == InitForward /\ [][ForwardNext]_vars

\* a connection that is never closed by its owner, dialling a remote that
\* refuses or drops only while further sockets can be dialled: the last
\* socket the bound allows is accepted and kept
AcceptsFrom == MaxSockets
InitForwardLive == PIdle /\ FInit /\ opts.reconnect /\ RIdle /\ PoolInit /\ XIdle
LiveConnect == Connect /\ UNCHANGED <<pvars, rvars, plvars, xvars>>
LiveReconnectTimerFire == ReconnectTimerFire /\ UNCHANGED <<pvars, rvars, plvars, xvars>>
LiveConnectTimeoutFire ==
  \E s \in 1..Len(sockets) :
    s < AcceptsFrom /\ ConnectTimeoutFire(s) /\ UNCHANGED <<pvars, rvars, plvars, xvars>>
LiveSocketError ==
  \E s \in 1..Len(sockets) :
    s < AcceptsFrom /\ SocketError(s) /\ UNCHANGED <<pvars, rvars, plvars, xvars>>
LiveSocketOpen ==
  \E s \in 1..Len(sockets) : SocketOpen(s) /\ UNCHANGED <<pvars, rvars, plvars, xvars>>
LiveSocketClose ==
  \E s \in 1..Len(sockets) :
    /\ sockets[s].readyState = "OPEN" => Len(sockets) < AcceptsFrom
    /\ SocketClose(s) /\ UNCHANGED <<pvars, rvars, plvars, xvars>>
ForwardLiveNext ==
  \/ LiveConnect
  \/ LiveReconnectTimerFire
  \/ LiveConnectTimeoutFire
  \/ LiveSocketError
  \/ LiveSocketOpen
  \/ LiveSocketClose

\* timers fire and a handshake in progress ends, one way or the other
SpecForwardLive ==
  /\ InitForwardLive /\ [][ForwardLiveNext]_vars
  /\ WF_vars(LiveReconnectTimerFire)
  /\ WF_vars(LiveSocketOpen \/ LiveSocketError \/ LiveConnectTimeoutFire)

\* the peer registry: inbound sockets are accepted, replaced, closed
RegistryNext ==
  \/ RConnect /\ UNCHANGED <<pvars, fvars, plvars, xvars>>
  \/ \E n \in 1..Len(servers) : ServerListening(n) /\ UNCHANGED <<pvars, fvars, plvars, xvars>>
  \/ \E n \in 1..Len(servers), request \in RegistryRequests :
       Inbound(n, request) /\ UNCHANGED <<pvars, fvars, plvars, xvars>>
  \/ \E s \in 1..Len(peers) : PeerClose(s) /\ UNCHANGED <<pvars, fvars, plvars, xvars>>
  \/ \E n \in RNames : RCloseName(n) /\ UNCHANGED <<pvars, fvars, plvars, xvars>>

SpecRegistry == InitRegistry /\ [][RegistryNext]_vars

\* createConnection gives a client one kind of connection: the first step
\* of a behaviour decides whether it is the forward or the reverse one
IsForward == servers = <<>> /\ robs.op = "new"
IsReverse == sockets = <<>> /\ obs.op = "new"
InitSend ==
  /\ PIdle
  /\ FInit /\ opts.reconnectIntervalMs = 1 /\ opts.reconnectMaxIntervalMs = 2
           /\ opts.heartbeatIntervalMs > 0
  /\ RInit /\ ~rcfg.headerPolicy.strict /\ rcfg.headerPolicy.expectedAccessToken = <<>>
           /\ rcfg.rejectDuplicateOrigin /\ rcfg.heartbeatIntervalMs > 0
  /\ PoolInit /\ XIdle
SendNext ==
  \/ IsForward /\ Connect /\ UNCHANGED <<pvars, rvars, plvars, xvars>>
  \/ IsForward /\ Close /\ UNCHANGED <<pvars, rvars, plvars, xvars>>
  \/ IsForward /\ Send /\ UNCHANGED <<pvars, rvars, plvars, xvars>>
  \/ IsForward /\ ReconnectTimerFire /\ UNCHANGED <<pvars, rvars, plvars, xvars>>
  \/ \E s \in 1..Len(sockets) : SocketOpen(s) /\ UNCHANGED <<pvars, rvars, plvars, xvars>>
  \/ \E s \in 1..Len(sockets) : SocketError(s) /\ UNCHANGED <<pvars, rvars, plvars, xvars>>
  \/ \E s \in 1..Len(sockets) : SocketClose(s) /\ UNCHANGED <<pvars, rvars, plvars, xvars>>
  \/ IsReverse /\ RConnect /\ UNCHANGED <<pvars, fvars, plvars, xvars>>
  \/ \E n \in 1..Len(servers) : ServerListening(n) /\ UNCHANGED <<pvars, fvars, plvars, xvars>>
  \/ \E n \in 1..Len(servers), request \in PlainRequests :
       Inbound(n, request) /\ UNCHANGED <<pvars, fvars, plvars, xvars>>
  \/ \E s \in 1..Len(peers) : PeerClose(s) /\ UNCHANGED <<pvars, fvars, plvars, xvars>>
  \/ \E n \in RNames : IsReverse /\ RCloseName(n) /\ UNCHANGED <<pvars, fvars, plvars, xvars>>
  \/ \E n \in RNames : IsReverse /\ RSend(n) /\ UNCHANGED <<pvars, fvars, plvars, xvars>>
  \/ \E s \in 1..Len(sockets), timedOut \in BOOLEAN :
       HeartbeatTick(s, timedOut) /\ UNCHANGED <<pvars, rvars, plvars, xvars>>
  \/ \E s \in 1..Len(peers), timedOut \in BOOLEAN :
       RHeartbeatTick(s, timedOut) /\ UNCHANGED <<pvars, fvars, plvars, xvars>>

SpecSend == InitSend /\ [][SendNext]_vars

\* a client in reverse mode: inbound sockets come, are replaced and close
\* while requests are issued on them
ClientEchoes == {"e1"}
InitReverseClient ==
  /\ PIdle /\ FIdle /\ PoolInit /\ XIdle
  /\ RInit /\ ~rcfg.headerPolicy.strict /\ rcfg.headerPolicy.expectedAccessToken = <<>>
           /\ rcfg.rejectDuplicateOrigin /\ rcfg.heartbeatIntervalMs = 0
ReverseClientNext ==
  \/ CConnect /\ UNCHANGED <<fvars, plvars, hb, hd, dvars>>
  \/ \E n \in 1..Len(servers) : CServerListening(n) /\ UNCHANGED <<fvars, plvars, hb, hd, dvars>>
  \/ \E n \in 1..Len(servers), request \in PlainRequests :
       CInbound(n, request) /\ UNCHANGED <<fvars, plvars, hb, hd, dvars>>
  \/ \E s \in 1..Len(peers) : CPeerClose(s) /\ UNCHANGED <<fvars, plvars, hb, hd, dvars>>
  \/ \E n \in RNames, e \in ClientEchoes, ms \in TimeoutChoices, api \in Apis :
       CRequest(n, e, ms, api) /\ UNCHANGED <<fvars, plvars, hb, hd, dvars>>
  \/ \E call \in inflight : CSendAck(call) /\ UNCHANGED <<fvars, plvars, hb, hd, dvars>>
  \/ \E n \in RNames, e \in ClientEchoes : CMessage(n, e) /\ UNCHANGED <<fvars, plvars, hb, hd, dvars>>

SpecReverseClient == InitReverseClient /\ [][ReverseClientNext]_vars

\* the checks of handleConnection: requests with every kind of authorization
AuthNext ==
  \/ RConnect /\ UNCHANGED <<pvars, fvars, plvars, xvars>>
  \/ \E n \in 1..Len(servers) : ServerListening(n) /\ UNCHANGED <<pvars, fvars, plvars, xvars>>
  \/ \E n \in 1..Len(servers), request \in AuthRequests :
       Inbound(n, request) /\ UNCHANGED <<pvars, fvars, plvars, xvars>>
  \/ \E s \in 1..Len(peers) : PeerClose(s) /\ UNCHANGED <<pvars, fvars, plvars, xvars>>

SpecAuth == InitAuth /\ [][AuthNext]_vars

\* the server's life: binds, inbound sockets, close() with and without a name
ServerNext ==
  \/ RConnect /\ UNCHANGED <<pvars, fvars, plvars, xvars>>
  \/ \E n \in 1..Len(servers) : ServerListening(n) /\ UNCHANGED <<pvars, fvars, plvars, xvars>>
  \/ \E n \in 1..Len(servers) : ServerError(n) /\ UNCHANGED <<pvars, fvars, plvars, xvars>>
  \/ \E n \in 1..Len(servers), request \in PlainRequests :
       Inbound(n, request) /\ UNCHANGED <<pvars, fvars, plvars, xvars>>
  \/ \E s \in 1..Len(peers) : PeerClose(s) /\ UNCHANGED <<pvars, fvars, plvars, xvars>>
  \/ \E n \in RNames : RCloseName(n) /\ UNCHANGED <<pvars, fvars, plvars, xvars>>
  \/ RCloseAll /\ UNCHANGED <<pvars, fvars, plvars, xvars>>
  \/ \E n \in 1..Len(servers) : ServerClosed(n) /\ UNCHANGED <<pvars, fvars, plvars, xvars>>

SpecServer == InitServer /\ [][ServerNext]_vars

PoolNext ==
  \/ PoolConnect /\ UNCHANGED <<pvars, fvars, rvars, xvars>>
  \/ \E n \in PoolNames : PoolClose(n) /\ UNCHANGED <<pvars, fvars, rvars, xvars>>
  \/ \E n \in PoolNames : PoolReconnectTimerFire(n) /\ UNCHANGED <<pvars, fvars, rvars, xvars>>
  \/ \E n \in PoolNames : \E s \in 1..Len(pool[n].s) :
       PoolConnectTimeoutFire(n, s) /\ UNCHANGED <<pvars, fvars, rvars, xvars>>
  \/ \E n \in PoolNames : \E s \in 1..Len(pool[n].s) :
       PoolSocketOpen(n, s) /\ UNCHANGED <<pvars, fvars, rvars, xvars>>
  \/ \E n \in PoolNames : \E s \in 1..Len(pool[n].s) :
       PoolSocketError(n, s) /\ UNCHANGED <<pvars, fvars, rvars, xvars>>
  \/ \E n \in PoolNames : \E s \in 1..Len(pool[n].s) :
       PoolSocketClose(n, s) /\ UNCHANGED <<pvars, fvars, rvars, xvars>>

SpecPool == InitPool /\ [][PoolNext]_vars

\* one monitor on one socket, with time passing
InitHeartbeat ==
  PIdle /\ FIdle /\ RIdle /\ PoolInit /\ HbInit /\ hd = HdIdle /\ DIdle /\ CInit
HeartbeatNext ==
  \/ HbStart /\ UNCHANGED <<pvars, fvars, rvars, plvars, hd, dvars, client>>
  \/ HbAdvance /\ UNCHANGED <<pvars, fvars, rvars, plvars, hd, dvars, client>>
  \/ HbTick /\ UNCHANGED <<pvars, fvars, rvars, plvars, hd, dvars, client>>
  \/ HbPong /\ UNCHANGED <<pvars, fvars, rvars, plvars, hd, dvars, client>>
  \/ HbPeerSilent /\ UNCHANGED <<pvars, fvars, rvars, plvars, hd, dvars, client>>
  \/ HbSocketClose /\ UNCHANGED <<pvars, fvars, rvars, plvars, hd, dvars, client>>

SpecHeartbeat == InitHeartbeat /\ [][HeartbeatNext]_vars
\* time passes and a due timer callback runs
SpecHeartbeatLive ==
  /\ SpecHeartbeat
  /\ WF_vars(HbAdvance /\ UNCHANGED <<pvars, fvars, rvars, plvars, hd, dvars, client>>)
  /\ WF_vars(HbTick /\ UNCHANGED <<pvars, fvars, rvars, plvars, hd, dvars, client>>)

\* the pure functions of headers.ts, each applied once to arguments callers write
InitHeaders ==
  /\ PIdle /\ FIdle /\ RIdle /\ PoolInit
  /\ HbInit /\ hb.intervalMs = 0 /\ hb.timeoutMs = 0
  /\ HdInit /\ DIdle /\ CInit
HeadersNext ==
  \/ BuildHeaders /\ UNCHANGED <<pvars, fvars, rvars, plvars, hb, dvars, client>>
  \/ MatchAuthorization /\ UNCHANGED <<pvars, fvars, rvars, plvars, hb, dvars, client>>

SpecHeaders == InitHeaders /\ [][HeadersNext]_vars

\* a pool driven through add, remove, connect, close, waitForOpen and the
\* client's request, with its sockets opening, failing and closing
InitDynamic ==
  /\ PIdle /\ FIdle /\ RIdle /\ PoolInit
  /\ HbInit /\ hb.intervalMs = 0 /\ hb.timeoutMs = 0 /\ hd = HdIdle
  /\ DynInit /\ CInit
DynamicNext ==
  \/ \E config \in DynConfigs : DynAdd(config) /\ UNCHANGED <<pvars, fvars, rvars, plvars, hb, hd, client>>
  \/ \E n \in DynNames : DynRemove(n) /\ UNCHANGED <<pvars, fvars, rvars, plvars, hb, hd, client>>
  \/ \E n \in Optional(DynNames) : DynConnect(n) /\ UNCHANGED <<pvars, fvars, rvars, plvars, hb, hd, client>>
  \/ \E n \in Optional(DynNames) : DynClose(n) /\ UNCHANGED <<pvars, fvars, rvars, plvars, hb, hd, client>>
  \/ \E n \in Optional(DynNames) : DynWaitForOpen(n) /\ UNCHANGED <<pvars, fvars, rvars, plvars, hb, hd, client>>
  \/ \E n \in Optional(DynNames) : DynRequest(n) /\ UNCHANGED <<pvars, fvars, rvars, plvars, hb, hd, client>>
  \/ \E o \in 1..Len(dyn.objs) :
       DynReconnectTimerFire(o) /\ UNCHANGED <<pvars, fvars, rvars, plvars, hb, hd, client>>
  \/ \E o \in 1..Len(dyn.objs) : \E s \in 1..Len(dyn.objs[o].s) :
       DynSocketOpen(o, s) /\ UNCHANGED <<pvars, fvars, rvars, plvars, hb, hd, client>>
  \/ \E o \in 1..Len(dyn.objs) : \E s \in 1..Len(dyn.objs[o].s) :
       DynSocketError(o, s) /\ UNCHANGED <<pvars, fvars, rvars, plvars, hb, hd, client>>
  \/ \E o \in 1..Len(dyn.objs) : \E s \in 1..Len(dyn.objs[o].s) :
       DynSocketClose(o, s) /\ UNCHANGED <<pvars, fvars, rvars, plvars, hb, hd, client>>

SpecDynamic == InitDynamic /\ [][DynamicNext]_vars

\* PendingRequests driven through its own methods, as its tests drive it
TableNext ==
  \/ \E e \in Echoes, ms \in TimeoutChoices, api \in Apis, c \in Scopes : Create(e, ms, api, c) /\ UNCHANGED <<fvars, rvars, plvars, xvars>>
  \/ \E e \in Echoes, c \in Scopes : Resolve(e, c) /\ UNCHANGED <<fvars, rvars, plvars, xvars>>
  \/ \E e \in Echoes, c \in Scopes : Cancel(e, CleanupError, c) /\ UNCHANGED <<fvars, rvars, plvars, xvars>>
  \/ \E tm \in timers : TimeoutFire(tm) /\ UNCHANGED <<fvars, rvars, plvars, xvars>>
  \/ RejectAll(CleanupError) /\ UNCHANGED <<fvars, rvars, plvars, xvars>>
  \/ \E c \in Names : RejectByConnection(c, CleanupError) /\ UNCHANGED <<fvars, rvars, plvars, xvars>>

\* PendingRequests driven by QueQiaoClient: requests, responses, socket closes
ClientNext ==
  \/ \E n \in Names, e \in Echoes, ms \in TimeoutChoices, api \in Apis : Request(n, e, ms, api) /\ UNCHANGED <<fvars, rvars, plvars, xvars>>
  \/ \E call \in inflight : SendAck(call) /\ UNCHANGED <<fvars, rvars, plvars, xvars>>
  \/ \E call \in inflight, err \in SendErrors : SendFail(call, err) /\ UNCHANGED <<fvars, rvars, plvars, xvars>>
  \/ \E n \in Names, e \in Echoes : HandleMessage(n, e) /\ UNCHANGED <<fvars, rvars, plvars, xvars>>
  \/ \E tm \in timers : TimeoutFire(tm) /\ UNCHANGED <<fvars, rvars, plvars, xvars>>
  \/ \E n \in Names : HandleClose(n) /\ UNCHANGED <<fvars, rvars, plvars, xvars>>
  \/ \E c \in Scopes : ClientClose(c) /\ UNCHANGED <<fvars, rvars, plvars, xvars>>

\* both at once: every path that creates or settles an entry
AllNext ==
  \/ TableNext
  \/ ClientNext

SpecPending == InitRequests /\ [][TableNext]_vars
SpecClient == InitRequests /\ [][ClientNext]_vars
SpecRequests == InitRequests /\ [][AllNext]_vars


(***************************************************************************)
(* Claims about the pending table.                                         *)
(***************************************************************************)
HandlerOf(id) == CHOOSE h \in MapEntries(pending) : h.id = id
IsListed(m, id) == \E h \in MapEntries(m) : h.id = id
IsArmed(ts, id) == \E tm \in ts : tm.id = id
Rejected(msg) == [settles |-> 1, state |-> "rejected", value |-> msg]
Fulfilled(response) == [settles |-> 1, state |-> "fulfilled", value |-> response]
TableUnchanged == UNCHANGED <<pending, promises, timers>>
\* the entry a create(echo, .., connection) call made is still in the table
CreatedUnder(h, echo, connection) ==
  /\ h.connection = connection
  /\ \E tm \in timers : tm.id = h.id /\ tm.echo = echo

\* C1: when the connection layer emits close for socket name n, every entry
\* whose owning socket is n is removed, its timer is cancelled and its caller
\* is failed with 'WebSocket connection closed'; no entry of n stays pending.
C1_CloseFailsScopedRequests ==
  [][\A n \in Names : (last'.op = "handleClose" /\ HandleClose(n)) =>
       /\ \A h \in MapEntries(pending) : h.connection = n =>
            /\ promises[h.id].state = "pending"
            /\ promises'[h.id] = Rejected("WebSocket connection closed")
            /\ ~IsArmed(timers', h.id)
       /\ \A h \in MapEntries(pending') : h.connection # n]_pvars

C1_Witness ==
  /\ last = Called("handleClose", "A")
  /\ \E id \in 1..Len(promises) : promises[id] = Rejected("WebSocket connection closed")
  /\ \E h \in MapEntries(pending) : h.connection = "B" /\ promises[h.id].state = "pending"

\* a create or request step for (echo, connection), and the result it reports
CreateStep(e, ms, api, c) ==
  \/ last'.op = "create" /\ Create(e, ms, api, c)
  \/ last'.op = "request" /\ c \in Names /\ Request(c, e, ms, api)

AtCapacity == maxRequests > 0 /\ Len(pending) >= maxRequests

\* C5 as stated: a create for an (id, scope) that is already pending throws
\* 'Duplicate echo value', changes nothing and starts no send.
C5_DuplicateAlwaysReported ==
  [][\A e \in Echoes, ms \in TimeoutChoices, api \in Apis, c \in Scopes :
       (CreateStep(e, ms, api, c) /\ \E h \in MapEntries(pending) : CreatedUnder(h, e, c)) =>
          /\ last'.result = "Duplicate echo value: " \o e
          /\ TableUnchanged
          /\ inflight' = inflight]_pvars

\* C5 (amended): a create for an (id, scope) that is already pending throws
\* synchronously: 'Too many pending requests' when the table is at capacity,
\* 'Duplicate echo value' otherwise.  Either way the existing entry, its timer
\* and its caller are untouched and no send is started for the second request.
C5_DuplicateRejected ==
  [][\A e \in Echoes, ms \in TimeoutChoices, api \in Apis, c \in Scopes :
       (CreateStep(e, ms, api, c) /\ \E h \in MapEntries(pending) : CreatedUnder(h, e, c)) =>
          /\ last'.result =
               IF AtCapacity
                 THEN "Too many pending requests (max " \o ToString(maxRequests) \o ")"
                 ELSE "Duplicate echo value: " \o e
          /\ TableUnchanged
          /\ inflight' = inflight
          /\ \A h \in MapEntries(pending) : CreatedUnder(h, e, c) =>
               /\ h \in MapEntries(pending')
               /\ IsArmed(timers', h.id)
               /\ promises'[h.id].state = "pending"]_pvars

C5_Witness ==
  /\ last = Called("request", "Duplicate echo value: e1")
  /\ \E h \in MapEntries(pending) :
       /\ CreatedUnder(h, "e1", "A")
       /\ promises[h.id].state = "pending"
  /\ Len(promises) = 1

\* C6: a deadline timer fires only for an entry that is still pending; firing
\* removes the entry and fails the caller with
\* 'Request timeout after <timeoutMs>ms: <scope>/<api>' ('<api>' when unscoped).
C6_TimeoutRejectsOnce ==
  [][\A tm \in timers : (last'.op = "timeout" /\ TimeoutFire(tm)) =>
       /\ IsListed(pending, tm.id)
       /\ promises[tm.id].state = "pending"
       /\ ~IsListed(pending', tm.id)
       /\ ~IsArmed(timers', tm.id)
       /\ promises'[tm.id] =
            Rejected("Request timeout after " \o ToString(tm.timeoutMs) \o "ms: "
                     \o (IF HandlerOf(tm.id).connection \in Names
                           THEN HandlerOf(tm.id).connection \o "/" \o tm.api
                           ELSE tm.api))]_pvars

C6_Witness ==
  /\ last.op = "timeout"
  /\ \E id \in 1..Len(promises) :
       promises[id] = Rejected("Request timeout after 10ms: A/broadcast")
  /\ \E id \in 1..Len(promises) :
       promises[id] = Rejected("Request timeout after 10ms: broadcast")

\* C7: with max > 0 the table never holds more than max entries, and a create
\* issued at capacity throws, adds no entry and starts no timer; with max = 0
\* a create for a fresh key always succeeds.
C7_CapacityEnforced ==
  [][/\ maxRequests > 0 => Len(pending') <= maxRequests
     /\ \A e \in Echoes, ms \in TimeoutChoices, api \in Apis, c \in Scopes :
          CreateStep(e, ms, api, c) =>
            /\ AtCapacity =>
                 /\ last'.result =
                      "Too many pending requests (max " \o ToString(maxRequests) \o ")"
                 /\ TableUnchanged
                 /\ inflight' = inflight
            /\ maxRequests = 0 =>
                 \/ last'.result \in {"ok", "sent"} /\ Len(pending') = Len(pending) + 1
                 \/ last'.result = "Duplicate echo value: " \o e /\ TableUnchanged]_pvars

C7_Witness ==
  /\ maxRequests > 0
  /\ last = Called("create", "Too many pending requests (max " \o ToString(maxRequests) \o ")")
  /\ Len(pending) = maxRequests
  /\ Cardinality(timers) = maxRequests

\* the key resolve() ends on: the scoped key if it is pending, else the bare id
LookupKey(e, c) ==
  LET scoped == IF c \in Names THEN c \o "::" \o e ELSE e
  IN IF \E h \in MapEntries(pending) : h.key = scoped THEN scoped ELSE e

ResolveStep(e, c) ==
  \/ last'.op = "resolve" /\ Resolve(e, c)
  \/ last'.op = "handleMessage" /\ c \in Names /\ HandleMessage(c, e)

\* C8: resolve(id, response, scope) hits the scoped key first and the bare id
\* second; a hit cancels the timer, removes exactly that entry, fulfils its
\* caller with the response and returns true; a miss returns false and
\* changes nothing.  An entry created under (id, A) survives resolve(id, _, B).
C8_ResolveLookup ==
  [][\A e \in Echoes, c \in Scopes : ResolveStep(e, c) =>
       /\ IF \E h \in MapEntries(pending) : h.key = LookupKey(e, c)
            THEN LET hit == CHOOSE h \in MapEntries(pending) : h.key = LookupKey(e, c)
                 IN /\ last'.result = "true"
                    /\ pending' = SelectSeq(pending, LAMBDA h : h # hit)
                    /\ timers' = {tm \in timers : tm.id # hit.id}
                    /\ promises' = [promises EXCEPT ![hit.id] = Fulfilled(ResponseFor(e))]
                    /\ promises[hit.id].state = "pending"
            ELSE /\ last'.result = "false"
                 /\ TableUnchanged
       /\ \A h \in MapEntries(pending), a \in Names :
            (a # c /\ CreatedUnder(h, e, a)) =>
               /\ h \in MapEntries(pending')
               /\ IsArmed(timers', h.id)
               /\ promises'[h.id] = promises[h.id]]_pvars

C8_Witness ==
  /\ last = Called("resolve", "true")
  /\ \E h \in MapEntries(pending) : CreatedUnder(h, "e1", "A")
  /\ \E id \in 1..Len(promises) : promises[id] = Fulfilled("SUCCESS:e1")
  /\ Len(pending) = 1

\* C9: no promise is settled twice, and a settled promise has neither an
\* entry in the table nor an armed timer, whatever path settled it.
C9_SettledAtMostOnce ==
  \A id \in 1..Len(promises) :
    /\ promises[id].settles <= 1
    /\ (promises[id].settles = 1) = (promises[id].state # "pending")
    /\ promises[id].state # "pending" => ~IsListed(pending, id) /\ ~IsArmed(timers, id)

C9_Witness ==
  /\ last = Called("resolve", "false")
  /\ Len(promises) = MaxCreates
  /\ \A id \in 1..Len(promises) : promises[id].settles = 1
  /\ \E id \in 1..Len(promises) : promises[id].state = "fulfilled"
  /\ \E id \in 1..Len(promises) : promises[id] = Rejected("cleanup")

RejectStep(c, error) ==
  \/ last'.op = "rejectByConnection" /\ RejectByConnection(c, error)
  \/ last'.op = "close" /\ error = ClosedError /\ ClientClose(c)

RejectAllStep(error) ==
  \/ last'.op = "rejectAll" /\ RejectAll(error)
  \/ last'.op = "close" /\ error = ClosedError /\ ClientClose("")

\* C10: rejectByConnection(S, err) removes and fails exactly the entries owned
\* by S, every other entry keeps its place, timer and pending caller;
\* rejectAll(err) fails every entry and leaves the table empty.
C10_BulkRejectFrame ==
  [][/\ \A c \in Names, error \in {CleanupError, ClosedError} : RejectStep(c, error) =>
          /\ pending' = SelectSeq(pending, LAMBDA h : h.connection # c)
          /\ timers' = {tm \in timers : \E h \in MapEntries(pending') : h.id = tm.id}
          /\ \A h \in MapEntries(pending) :
               promises'[h.id] = IF h.connection = c THEN Rejected(error.message)
                                                     ELSE promises[h.id]
          /\ \A h \in MapEntries(pending') :
               IsArmed(timers', h.id) /\ promises'[h.id].state = "pending"
     /\ \A error \in {CleanupError, ClosedError} : RejectAllStep(error) =>
          /\ pending' = <<>>
          /\ timers' = {}
          /\ \A h \in MapEntries(pending) : promises'[h.id] = Rejected(error.message)]_pvars

C10_Witness ==
  /\ last.op = "rejectByConnection"
  /\ Len(promises) = MaxCreates
  /\ Len(pending) = 1
  /\ \A h \in MapEntries(pending) : h.connection = "B" /\ promises[h.id].state = "pending"
  /\ \A id \in 1..Len(promises) :
       promises[id].state # "pending" => promises[id] = Rejected("cleanup")

(***************************************************************************)
(* Claims about the forward connection.                                    *)
(***************************************************************************)
ReconnectEvents(o) == {o.events[i] : i \in {j \in 1..Len(o.events) : IsReconnect(o.events[j])}}
\* the delay of the k-th reconnect of a run when the first one waits `first`
RECURSIVE BackoffFrom(_, _)
BackoffFrom(first, k) ==
  IF k <= 1 THEN first
  ELSE Min(2 * BackoffFrom(first, k - 1), opts.reconnectMaxIntervalMs)
OpenResets ==
  (\E i \in 1..Len(obs.events) : obs.events[i].type = "open")
    => /\ fwd.reconnectAttempt = 0
       /\ fwd.reconnectDelayMs = opts.reconnectIntervalMs
       /\ obs.run = 0

C3_NoReconnectAfterClose ==
  [][obs'.userClosed =>
       /\ ~fwd'.reconnectTimer
       /\ ReconnectEvents(obs') = {}
       /\ Len(sockets') = Len(sockets)]_fvars
\* the socket that close() closed reports its close on a reconnecting connection
C3_Witness ==
  /\ opts.reconnect
  /\ obs.userClosed
  /\ obs.op = "socketClose"
  /\ fwd.reconnectAttempt > 0

\* C4: connect() while an attempt is in flight returns that attempt's promise
\* and constructs no socket; connect() on an open connection returns at once
\* and constructs no socket.
C4_ConnectIsShared ==
  [][obs'.op \in {"connect", "reconnectTimer"} =>
       IF isOpen(World)
         THEN obs'.ret = 0 /\ sockets' = sockets /\ attempts' = attempts
         ELSE fwd.connectPromise # 0 =>
                /\ attempts[fwd.connectPromise] = "pending"
                /\ obs'.ret = fwd.connectPromise
                /\ sockets' = sockets
                /\ attempts' = attempts]_fvars
\* a connect() call that joined the attempt in flight
C4_Witness ==
  /\ obs.op = "connect"
  /\ obs.made = 0
  /\ obs.ret # 0
  /\ attempts[obs.ret] = "pending"

(***************************************************************************)
(* Claims about the reverse connection.                                    *)
(***************************************************************************)
\* the step handed an inbound socket to handleConnection, which kept it (or not)
InboundStep == robs'.op = "connection"
Accepted == InboundStep /\ robs'.reason = ""
Rejected1008 == InboundStep /\ robs'.reason # ""
NewSocketId == Len(peers) + 1
\* the sockets that existed before the step are as they were
PriorPeersUnchanged == \A s \in 1..Len(peers) : peers'[s] = peers[s]
\* at most one open socket speaks for a name, and it is the registered one
OneLiveSocketPerName ==
  \A s \in 1..Len(peers) :
    peers[s].selfName # <<>> /\ peers[s].readyState = "OPEN" => rev.sockets[peers[s].selfName] = s

C12_DuplicateOriginRejected ==
  [][(/\ InboundStep
      /\ rcfg.rejectDuplicateOrigin
      /\ robs'.arg.selfName # <<>>
      /\ robs'.arg.origin # <<>>
      /\ rev.selfNameByOrigin[robs'.arg.origin] \notin {<<>>, robs'.arg.selfName})
     => /\ robs'.reason = "duplicate client origin"
        /\ rev' = rev
        /\ robs'.events = <<>>
        /\ PriorPeersUnchanged
        /\ peers'[NewSocketId].readyState = "CLOSING"
        /\ peers'[NewSocketId].selfName = <<>>
        /\ ~peers'[NewSocketId].monitor]_rvars
\* name B was turned away while name A keeps the origin and its open socket
C12_Witness ==
  /\ robs.op = "connection"
  /\ robs.reason = "duplicate client origin"
  /\ robs.arg.selfName = NameB
  /\ rev.selfNameByOrigin[robs.arg.origin] = NameA
  /\ rev.sockets[NameA] # 0
  /\ peers[rev.sockets[NameA]].readyState = "OPEN"
  /\ peers[rev.sockets[NameA]].monitor
  /\ rev.sockets[NameB] = 0

\* C13 as stated: with rejectDuplicateOrigin, an inbound socket is rejected as
\* a duplicate origin only when its origin is bound to a name other than the
\* one it declares; declaring the name that owns the origin, it is accepted
\* and replaces the prior socket.
C13_OnlyOtherNamesRejected ==
  [][(InboundStep /\ rcfg.rejectDuplicateOrigin /\ robs'.arg.origin # <<>>) =>
       LET M == robs'.arg.selfName
           owner == rev.selfNameByOrigin[robs'.arg.origin]
       IN /\ robs'.reason = "duplicate client origin" => owner \notin {<<>>, M}
          /\ (M # <<>> /\ owner = M) =>
               /\ robs'.reason = ""
               /\ rev'.sockets[M] = NewSocketId]_rvars

\* C14: a rejected inbound socket is closed with 1008 and the reason, gets no
\* listener, heartbeat or Map entry, now or later; the step emits nothing,
\* counts nothing and leaves the servers and the promise of connect() alone.
C14_RejectionsAreQuiet ==
  [][/\ \A s \in 1..Len(peers') :
          peers'[s].closeCode = 1008 => \A n \in RNames : rev'.sockets[n] # s
     /\ Rejected1008 =>
          /\ peers'[NewSocketId].readyState = "CLOSING"
          /\ peers'[NewSocketId].closeCode = 1008
          /\ peers'[NewSocketId].closeReason = robs'.reason
          /\ peers'[NewSocketId].selfName = <<>>
          /\ ~peers'[NewSocketId].monitor
          /\ rev' = rev
          /\ servers' = servers
          /\ PriorPeersUnchanged
          /\ robs'.events = <<>>]_rvars
\* sockets were turned away for a duplicate origin and for their authorization
C14_Witness ==
  /\ robs.op = "connection"
  /\ robs.reason = "authorization mismatch"
  /\ robs.events = <<>>
  /\ peers[Len(peers)].closeCode = 1008
  /\ \E s \in 1..Len(peers) : peers[s].closeReason = "duplicate client origin"

\* the origin Maps agree with the registry: an origin entry belongs to a
\* registered name, and the reverse entry points at a name that holds it
OriginMapsConsistent ==
  /\ \A n \in RNames : rev.originBySelfName[n] # <<>> => rev.sockets[n] # 0
  /\ \A o \in ROrigins :
       rev.selfNameByOrigin[o] # <<>> =>
         /\ rev.originBySelfName[rev.selfNameByOrigin[o]] = o
         /\ rev.sockets[rev.selfNameByOrigin[o]] # 0
\* an accepted socket leaves its name bound to exactly the origin it declared
AcceptedOriginRecorded ==
  Accepted =>
    /\ rev'.originBySelfName[robs'.arg.selfName] = robs'.arg.origin
    /\ robs'.arg.origin # <<>> => rev'.selfNameByOrigin[robs'.arg.origin] = robs'.arg.selfName
\* the entry of a name changes only when the socket registered under it does
OriginOfNameFollowsSocket ==
  \A n \in RNames :
    rev'.originBySelfName[n] # rev.originBySelfName[n] => rev'.sockets[n] # rev.sockets[n]

\* C15 as stated: the entries of both origin Maps for a name exist exactly
\* while a socket that declared an origin is registered under it, and go away
\* only when that socket closes or is replaced.
C15_OriginEntriesFollowSockets ==
  [][/\ OriginMapsConsistent'
     /\ AcceptedOriginRecorded
     /\ OriginOfNameFollowsSocket
     /\ \A o \in ROrigins :
          (rev.selfNameByOrigin[o] # <<>> /\ rev'.selfNameByOrigin[o] # rev.selfNameByOrigin[o])
            => rev'.sockets[rev.selfNameByOrigin[o]] # rev.sockets[rev.selfNameByOrigin[o]]
     /\ \A n \in RNames :
          rev'.originBySelfName[n] # <<>> =>
            rev'.selfNameByOrigin[rev'.originBySelfName[n]] = n]_rvars

\* C15 amended: originBySelfName[N] is the origin declared by the socket
\* registered under N and changes only with that socket; selfNameByOrigin[O] =
\* N implies originBySelfName[N] = O and N registered; the entry of O leaves N
\* only when N's socket closes or is replaced, or when duplicate origins are
\* allowed and a socket accepted under another name declares O; with
\* duplicate origins rejected both Maps are inverse to each other.
C15_OriginEntriesFollowAcceptance ==
  [][/\ OriginMapsConsistent'
     /\ AcceptedOriginRecorded
     /\ OriginOfNameFollowsSocket
     /\ \A o \in ROrigins :
          (rev.selfNameByOrigin[o] # <<>> /\ rev'.selfNameByOrigin[o] # rev.selfNameByOrigin[o])
            => \/ rev'.sockets[rev.selfNameByOrigin[o]] # rev.sockets[rev.selfNameByOrigin[o]]
               \/ /\ ~rcfg.rejectDuplicateOrigin
                  /\ Accepted
                  /\ robs'.arg.origin = o
                  /\ robs'.arg.selfName # rev.selfNameByOrigin[o]
     /\ rcfg.rejectDuplicateOrigin =>
          \A n \in RNames :
            rev'.originBySelfName[n] # <<>> =>
              rev'.selfNameByOrigin[rev'.originBySelfName[n]] = n]_rvars
\* a socket that declared an origin has closed and its entries are gone, while
\* another name's entries stand
C15_Witness ==
  /\ robs.op = "socketClose"
  /\ robs.arg = NameA
  /\ rev.sockets[NameA] = 0
  /\ rev.originBySelfName[NameA] = <<>>
  /\ \E s \in 1..Len(peers) : peers[s].selfName = NameA /\ peers[s].readyState = "CLOSED"
  /\ rev.originBySelfName[NameB] # <<>>
  /\ rev.selfNameByOrigin[rev.originBySelfName[NameB]] = NameB

\* the number of sockets accepted so far under a name
AcceptedCount(ps, n) == Cardinality({s \in 1..Len(ps) : ps[s].selfName = n})

\* C16 as stated: the k-th accepted socket of a name, k > 1, emits reconnect
\* with the name, the count k and delay 0, then open; the first emits only open.
C16_ReconnectCarriesCount ==
  [][Accepted =>
       LET N == robs'.arg.selfName
           k == AcceptedCount(peers', N)
       IN robs'.events = IF k > 1 THEN <<REv("reconnect", N, k, 0), REv("open", N, 0, 0)>>
                                  ELSE <<REv("open", N, 0, 0)>>]_rvars

\* C16 amended: the k-th accepted socket of a name, k > 1, emits reconnect
\* with the name, the number k - 1 of earlier accepted sockets and delay 0,
\* then open; the first emits only open.
C16_ReconnectCarriesEarlierCount ==
  [][Accepted =>
       LET N == robs'.arg.selfName
           k == AcceptedCount(peers', N)
       IN /\ rev'.connectionCounts[N] = k
          /\ robs'.events = IF k > 1 THEN <<REv("reconnect", N, k - 1, 0), REv("open", N, 0, 0)>>
                                     ELSE <<REv("open", N, 0, 0)>>]_rvars
\* the third socket accepted under a name has announced itself
C16_Witness ==
  /\ robs.op = "connection"
  /\ robs.reason = ""
  /\ AcceptedCount(peers, robs.arg.selfName) = 3
  /\ robs.events = <<REv("reconnect", robs.arg.selfName, 2, 0), REv("open", robs.arg.selfName, 0, 0)>>

\* C17 as stated: a connect() made while a bind is in flight returns the
\* promise of that bind and creates no server, so it settles as the bind does;
\* a connect() on a listening server returns at once and creates no server;
\* no server is created while another one is binding or listening.
C17_ConnectSharesBind ==
  [][robs'.op = "connect" =>
       LET busy == {n \in 1..Len(servers) : servers[n].state \in {"binding", "listening"}}
       IN /\ busy # {} => robs'.made = 0 /\ Len(servers') = Len(servers)
          /\ \A n \in busy :
               /\ servers[n].bind = "pending" => robs'.ret = n
               /\ servers[n].listening => robs'.ret = 0]_rvars

\* C18 as stated: close with a name closes the socket of that name and leaves
\* the servers, this.server and every other socket alone; when close() with
\* no name resolves, no name is registered, this.server is cleared and no
\* server is listening.
C18_CloseLeavesNothing ==
  [][/\ robs'.op = "closeName" =>
          /\ servers' = servers
          /\ rev'.server = rev.server
          /\ \A s \in 1..Len(peers) : s # rev.sockets[robs'.arg] => peers'[s] = peers[s]
          /\ \A n \in RNames : n # robs'.arg => rev'.sockets[n] = rev.sockets[n]
          /\ rev.sockets[robs'.arg] # 0 =>
               peers'[rev.sockets[robs'.arg]].readyState \in {"CLOSING", "CLOSED"}
     /\ (rclose'.phase = "done" /\ (rclose.phase # "done" \/ robs'.op = "close")) =>
          /\ \A n \in RNames : rev'.sockets[n] = 0
          /\ rev'.server = 0
          /\ \A n \in 1..Len(servers') : servers'[n].state # "listening"]_rvars

\* the authorization values, as received after trimming, that carry the
\* token: bare, with the Bearer prefix, and with a lower-case prefix and
\* extra blanks
GoodAuths == {Token, <<"B", "e", "a", "r", "e", "r", " ", "t">>,
              <<"b", "e", "a", "r", "e", "r", " ", " ", "t">>}

\* C19: with an access token configured, under strict and non-strict headers,
\* an inbound socket is accepted only if its authorization carries the token
\* (compared in Bearer form); one whose authorization is missing or carries
\* anything else is closed with 1008 and registered nowhere, and one that
\* carries the token is never turned away for its authorization.
C19_TokenGuardsAcceptance ==
  [][(InboundStep /\ rcfg.headerPolicy.expectedAccessToken # <<>>) =>
       /\ Accepted => robs'.arg.authorization \in GoodAuths
       /\ robs'.arg.authorization \notin GoodAuths =>
            /\ robs'.reason \in {"authorization mismatch", "missing x-self-name header"}
            /\ robs'.reason = "authorization mismatch" \/ rcfg.headerPolicy.strict
            /\ peers'[NewSocketId].closeCode = 1008
            /\ rev' = rev
            /\ robs'.events = <<>>
       /\ robs'.arg.authorization \in GoodAuths => robs'.reason # "authorization mismatch"]_rvars
\* without strict headers, a token configured with an upper-case prefix admits
\* a socket whose authorization has a lower-case prefix, after one that
\* carried another token was turned away
C19_Witness ==
  /\ ~rcfg.headerPolicy.strict
  /\ rcfg.headerPolicy.expectedAccessToken \notin {<<>>, Token}
  /\ robs.op = "connection"
  /\ robs.reason = ""
  /\ robs.arg.authorization = <<"b", "e", "a", "r", "e", "r", " ", " ", "t">>
  /\ rev.sockets[NameA] = Len(peers)
  /\ \E s \in 1..Len(peers) : peers[s].closeReason = "authorization mismatch"

(***************************************************************************)
(* Claims about the pool of forward connections                            *)
(***************************************************************************)
\* the step on which the promise of pool.connect() resolves
PoolResolves == pcall'.state = "resolved" /\ (pcall.state = "pending" \/ pobs'.op = "connect")
\* an attempt the pending call waits for has failed by the end of the step
WaitedAttemptFails ==
  \E n \in PoolNames :
    LET a == IF pobs'.op = "connect" THEN pcall'.waits[n] ELSE pcall.waits[n]
    IN a # 0 /\ pool'[n].p[a] = "rejected"
PoolRejects ==
  /\ (pcall.state = "pending" /\ WaitedAttemptFails) => pcall'.state = "rejected"
  /\ (pcall'.state = "rejected" /\ pcall.state = "pending") => WaitedAttemptFails

\* C20: when pool.connect() with no name resolves, every attempt it waited
\* for has resolved and every entry is open, unless close() was called on the
\* entry or its current socket closed while the call was pending; when an
\* attempt it waits for fails, it rejects.
C20_ResolvedMeansAllOpen ==
  [][/\ PoolResolves =>
          \A n \in PoolNames :
            /\ pcall'.waits[n] = 0
            /\ ~pcall'.disturbed[n] => poolIsOpen(pool', n)
     /\ PoolRejects]_plvars

\* the servers that fail to bind, and the step on which a listening server
\* reports an error
FailedBinds == {n \in 1..Len(servers) : servers[n].state = "binding" /\ servers'[n].state = "failed"}
LateServerError == robs'.op = "serverError" /\ FailedBinds = {}

\* C27: a server error before listening rejects the promise of the bind,
\* clears this.server and the shared promise, and the next connect() makes a
\* new server; an error of a listening server settles nothing and leaves the
\* connection, the servers and the sockets as they were.
C27_ServerErrorByPhase ==
  [][/\ \A n \in FailedBinds :
          /\ robs'.op = "serverError"
          /\ servers[n].bind = "pending" /\ servers'[n].bind = "rejected"
          /\ rev'.server = 0
          /\ rev'.connectPromise = 0
          /\ rev'.sockets = rev.sockets
          /\ peers' = peers
     /\ LateServerError => rev' = rev /\ servers' = servers /\ peers' = peers
     /\ (robs'.op = "connect" /\ rev.server = 0 /\ rev.connectPromise = 0) =>
          /\ robs'.made = Len(servers) + 1
          /\ robs'.ret = robs'.made
          /\ rev'.server = robs'.made
          /\ servers'[robs'.made] = NewServer]_rvars
\* after a failed bind a second server listens, a peer is registered, and the
\* server has just reported an error
C27_Witness ==
  /\ robs.op = "serverError"
  /\ Len(servers) = 2
  /\ servers[1].state = "failed" /\ servers[1].bind = "rejected"
  /\ servers[2].state = "listening" /\ servers[2].bind = "resolved"
  /\ rev.server = 2
  /\ \E n \in RNames : rev.sockets[n] # 0

(***************************************************************************)
(* Claims about the timers and events of the forward connection            *)
(***************************************************************************)
\* C28: the connect timeout fires only for an attempt that has neither opened
\* nor failed; it then rejects the attempt with the connect-timeout error and
\* terminates its socket, touching no other socket; an attempt that opens or
\* fails disarms its timeout in the same step, and a disarmed timeout is
\* never armed again.
C28_ConnectTimeout ==
  [][/\ obs'.op = "connectTimeout" =>
          \E s \in 1..Len(sockets) :
            /\ sockets[s].connectTimeout /\ ~sockets'[s].connectTimeout
            /\ sockets[s].readyState = "CONNECTING"
            /\ sockets'[s].readyState = "CLOSED"
            /\ attempts[s] = "pending" /\ attempts'[s] = "rejected"
            /\ obs'.err = "connect timeout"
            /\ \A t \in 1..Len(sockets) :
                 t # s => sockets'[t].readyState = sockets[t].readyState
     /\ \A s \in 1..Len(sockets) :
          /\ (attempts[s] = "pending" /\ attempts'[s] # "pending") => ~sockets'[s].connectTimeout
          /\ (sockets[s].readyState = "CONNECTING" /\ sockets'[s].readyState # "CONNECTING")
               => ~sockets'[s].connectTimeout
          /\ ~sockets[s].connectTimeout => ~sockets'[s].connectTimeout
          /\ (obs'.op # "connectTimeout" /\ obs'.err # "") => obs'.err = "socket error"]_fvars
\* one attempt timed out and a later one opened, its timeout disarmed
C28_Witness ==
  /\ obs.op = "socketOpen"
  /\ \E s, t \in 1..Len(sockets) :
       /\ s < t
       /\ attempts[s] = "rejected" /\ sockets[s].readyState = "CLOSED"
       /\ attempts[t] = "resolved" /\ sockets[t].readyState = "OPEN"
       /\ ~sockets[t].connectTimeout

(***************************************************************************)
(* Claims about send()                                                     *)
(***************************************************************************)
\* C24: send() on a forward connection whose field ws is empty or refers to a
\* socket that is not OPEN, and send() on a reverse connection for a name
\* with no registered socket or one that is not OPEN, throws at once: nothing
\* is handed to a socket and no field, socket, promise or server changes;
\* with an OPEN socket the payload is handed over.
C24_SendNeedsOpenSocket ==
  [][/\ obs'.op = "send" =>
          IF fwd.ws # 0 /\ sockets[fwd.ws].readyState = "OPEN"
            THEN obs'.sent /\ obs'.err = ""
            ELSE /\ ~obs'.sent
                 /\ obs'.err = "WebSocket is not open"
                 /\ obs'.events = <<>>
                 /\ fwd' = fwd /\ sockets' = sockets /\ attempts' = attempts
     /\ robs'.op = "send" =>
          LET socket == rev.sockets[robs'.arg]
          IN IF socket # 0 /\ peers[socket].readyState = "OPEN"
               THEN robs'.sent /\ robs'.reason = ""
               ELSE /\ ~robs'.sent
                    /\ robs'.reason = "WebSocket is not open"
                    /\ robs'.events = <<>>
                    /\ rev' = rev /\ peers' = peers /\ servers' = servers
                    /\ rclose' = rclose]_<<fvars, rvars>>
\* a send failed on a forward connection whose socket is closing, after an
\* earlier socket had closed and an earlier send had gone through
C24_Witness ==
  /\ obs.op = "send"
  /\ ~obs.sent
  /\ obs.err = "WebSocket is not open"
  /\ fwd.ws # 0
  /\ sockets[fwd.ws].readyState = "CLOSING"
  /\ \E s \in 1..Len(sockets) : sockets[s].readyState = "CLOSED"

(***************************************************************************)
(* Claims about the heartbeat monitors                                     *)
(***************************************************************************)
MonitoredSockets == {s \in 1..Len(sockets) : sockets[s].monitor}
MonitoredPeers(n) == {s \in 1..Len(peers) : peers[s].monitor /\ peers[s].selfName = n}

\* C29: a monitor pings or terminates only the socket the forward connection
\* holds in ws, or the socket registered under its name in the reverse
\* connection, and only while that socket is OPEN; a socket gets its monitor
\* in the step in which it opens or is accepted; a socket that has closed,
\* has been replaced or unregistered has no monitor; there is at most one
\* monitor per forward connection and per name.
C29_MonitorFollowsHeldSocket ==
  [][/\ obs'.beat # 0 =>
          /\ fwd.ws = obs'.beat
          /\ sockets[obs'.beat].readyState = "OPEN"
     /\ robs'.beat # 0 =>
          /\ rev.sockets[peers[robs'.beat].selfName] = robs'.beat
          /\ peers[robs'.beat].readyState = "OPEN"
     /\ Cardinality(MonitoredSockets') <= 1
     /\ \A n \in RNames : Cardinality(MonitoredPeers(n)') <= 1
     /\ \A s \in MonitoredSockets' : sockets'[s].readyState # "CLOSED"
     /\ \A n \in RNames : \A s \in MonitoredPeers(n)' :
          rev'.sockets[n] = s /\ peers'[s].readyState # "CLOSED"
     /\ \A s \in MonitoredSockets' \ MonitoredSockets : obs'.op = "socketOpen"
     /\ \A n \in RNames : \A s \in MonitoredPeers(n)' \ MonitoredPeers(n) :
          robs'.op = "connection" /\ s = Len(peers')
     /\ (obs'.op = "socketOpen" /\ Emitted([e |-> obs'.events], "open")) =>
          MonitoredSockets' # {}
     /\ (robs'.op = "connection" /\ robs'.reason = "") => peers'[Len(peers')].monitor]_<<fvars, rvars>>

\* C30: with intervalMs > 0 and timeoutMs > 0, a timer callback that finds
\* the socket open terminates it exactly when more than timeoutMs has passed
\* since the last pong (or since the monitor started) and pings otherwise, so
\* the first such callback is the one that terminates; an open socket whose
\* peer has stopped answering is eventually terminated (or closed); with
\* intervalMs = 0 no timer exists and nothing is ever pinged or terminated.
C30_SilentPeerIsTerminated ==
  /\ [][(hb'.did # "none" /\ hb.readyState = "OPEN") =>
          /\ hb.intervalMs > 0 /\ hb.timeoutMs > 0
          /\ (hb.sincePong > hb.timeoutMs) =>
               (hb'.did = "terminate" /\ hb'.readyState = "CLOSING")
          /\ (hb.sincePong <= hb.timeoutMs) =>
               (hb'.did = "ping" /\ hb'.readyState = "OPEN")]_hb
  /\ [][(hb'.readyState = "CLOSING" /\ hb.readyState = "OPEN") =>
          (hb'.did = "terminate" /\ hb.sincePong > hb.timeoutMs)]_hb
  /\ [](hb.intervalMs = 0 => (~hb.timer /\ hb.did = "none" /\ hb.readyState # "CLOSING"))
  /\ (hb.timer /\ hb.readyState = "OPEN" /\ ~hb.answering) ~> (hb.readyState # "OPEN")

\* the monitor has just terminated a socket whose peer went silent
C30_Witness ==
  /\ hb.did = "terminate"
  /\ hb.readyState = "CLOSING"
  /\ ~hb.answering
  /\ hb.timeoutMs > hb.intervalMs

\* the events the step emitted include one of this type
NotedIn(o, type) == \E i \in 1..Len(o.events) : o.events[i].type = type
\* the sockets this step closed
ClosedByStep ==
  {s \in 1..Len(sockets) : sockets[s].readyState # "CLOSED" /\ sockets'[s].readyState = "CLOSED"}
\* 'open' is emitted once per instance, for an instance a connect attempt
\* created and that is still connecting; a closed instance stays closed
OpenOncePerInstance ==
  /\ NotedIn(obs', "open") =>
       /\ obs'.op = "socketOpen"
       /\ obs'.src \in 1..Len(attempts)
       /\ sockets[obs'.src].readyState = "CONNECTING"
       /\ ~sockets[obs'.src].opened
       /\ sockets'[obs'.src].opened
  /\ \A s \in 1..Len(sockets) :
       /\ sockets[s].readyState = "CLOSED" => sockets'[s].readyState = "CLOSED"
       /\ sockets[s].opened => sockets'[s].opened
       /\ (sockets'[s].opened /\ ~sockets[s].opened) =>
            (NotedIn(obs', "open") /\ obs'.src = s)
  /\ NotedIn(obs', "close") <=> ClosedByStep # {}

\* C26 as stated: a message or close notification for an instance comes only
\* after an open notification for that instance, and an open notification
\* is for an instance of a connect attempt that has not opened or closed.
C26_OpenPrecedesMessageAndClose ==
  [][/\ OpenOncePerInstance
     /\ NotedIn(obs', "message") => sockets[obs'.src].opened
     /\ \A s \in ClosedByStep : sockets[s].opened]_fvars

\* C26 amended: a message notification for an instance comes only after the
\* open notification for that instance; a close notification comes after it
\* or for an instance that never opened (its handshake failed, timed out or
\* was abandoned by close()), and no open follows it for that instance; an
\* open notification is for an instance a connect attempt created, that is
\* still connecting and has not opened before.
C26_OpenPrecedesMessages ==
  [][/\ OpenOncePerInstance
     /\ NotedIn(obs', "message") => sockets[obs'.src].opened
     /\ \A s \in ClosedByStep :
          sockets[s].opened \/ sockets[s].readyState = "CONNECTING"]_fvars

\* a handshake has failed: 'close' is emitted for an instance that never
\* opened, after an earlier instance opened and closed
C26_Witness ==
  /\ obs.op = "socketError"
  /\ NotedIn(obs, "close")
  /\ ~sockets[obs.src].opened
  /\ \E s \in 1..Len(sockets) : sockets[s].opened /\ sockets[s].readyState = "CLOSED"

\* what the strings callers write stand for, written out: the name or token
\* inside the blanks and the Bearer prefix, and the string without its blanks
NameOf(v) == IF v \in {<<"a">>, <<" ", "a">>} THEN "a" ELSE "b"
TokenOf(v) == IF v = <<"u">> THEN "u" ELSE "t"
BearerOf(tok) ==
  IF tok = "t" THEN <<"B", "e", "a", "r", "e", "r", " ", "t">>
  ELSE <<"B", "e", "a", "r", "e", "r", " ", "u">>
Trimmed(v) ==
  CASE v = <<" ", "a">> -> <<"a">>
    [] v = <<"a", " ">> -> <<"a">>
    [] v = <<"t", " ">> -> <<"t">>
    [] v = <<"q", " ">> -> <<"q">>
    [] OTHER -> v
\* the values the caller supplied under one of these spellings, blanks aside
Supplied(keys) ==
  {hd.args.headers[i].value : i \in {j \in 1..Len(hd.args.headers) :
      hd.args.headers[j].key \in keys /\ hd.args.headers[j].value # BlankString}}
SelfNameKeys == {"x-self-name", "X-Self-Name"}
OriginKeys == {"x-client-origin", "X-Client-Origin"}
AuthorizationKeys == {"authorization", "Authorization"}
SelfNameConflict ==
  /\ hd.args.selfName # <<>>
  /\ \E v \in Supplied(SelfNameKeys) : NameOf(v) # NameOf(hd.args.selfName[1])
OriginConflict == \E v \in Supplied(OriginKeys) : Trimmed(v) # <<"q">>
AuthorizationConflict ==
  /\ hd.args.accessToken # <<>>
  /\ \E v \in Supplied(AuthorizationKeys) : TokenOf(v) # TokenOf(hd.args.accessToken[1])
\* the headers a successful call returns
ExpectedHeader(key) ==
  CASE key = "x-self-name" ->
         IF hd.args.selfName # <<>> THEN {<<NameOf(hd.args.selfName[1])>>}
         ELSE {Trimmed(v) : v \in Supplied(SelfNameKeys)}
    [] key = "x-client-origin" -> {<<"q">>}
    [] key = "authorization" ->
         IF hd.args.accessToken # <<>> THEN {BearerOf(TokenOf(hd.args.accessToken[1]))}
         ELSE {Trimmed(v) : v \in Supplied(AuthorizationKeys)}
    [] OTHER -> {Trimmed(v) : v \in Supplied({"X-Extra"})}

\* C25: given a selfName and accessToken that are absent or not blank,
\* buildHeaders fails with 'Header conflict: <key>' exactly when the caller
\* supplied a header for a mandated key that differs from the mandated value
\* (surrounding blanks aside; authorization compared by the token each side
\* carries in Bearer form), naming the first such key; otherwise it returns
\* headers under lower-case keys holding the mandated values and the caller's
\* other headers.  A blank selfName or accessToken is refused before any
\* header is compared.  matchAuthorization is true exactly when the incoming
\* value is present and carries the expected token.
C25_ConflictsAndBearerForm ==
  /\ (hd.called /\ hd.args.fn = "buildHeaders") =>
       IF <<BlankString>> \in {hd.args.selfName, hd.args.accessToken}
         THEN ~hd.result.ok /\ hd.result.error = "cannot be empty"
         ELSE /\ (hd.result.error = "Header conflict") <=>
                   (SelfNameConflict \/ OriginConflict \/ AuthorizationConflict)
              /\ (hd.result.error = "Header conflict") =>
                   hd.result.key = (IF SelfNameConflict THEN "x-self-name"
                                    ELSE IF OriginConflict THEN "x-client-origin"
                                    ELSE "authorization")
              /\ hd.result.ok <=> (hd.result.error # "Header conflict")
              /\ hd.result.ok =>
                   /\ DOMAIN hd.result.headers \subseteq
                        {"x-self-name", "x-client-origin", "authorization", "x-extra"}
                   /\ \A key \in {"x-self-name", "x-client-origin", "authorization", "x-extra"} :
                        /\ key \in DOMAIN hd.result.headers <=> ExpectedHeader(key) # {}
                        /\ key \in DOMAIN hd.result.headers =>
                             hd.result.headers[key] \in ExpectedHeader(key)
  /\ (hd.called /\ hd.args.fn = "matchAuthorization") =>
       (hd.result <=> (/\ hd.args.incoming # <<>>
                       /\ TokenOf(hd.args.incoming) = TokenOf(hd.args.expectedToken)))

\* buildHeaders has accepted an Authorization header written in another
\* form than the access token and returned it in Bearer form
C25_Witness ==
  /\ hd.called /\ hd.args.fn = "buildHeaders"
  /\ hd.result.ok
  /\ hd.args.accessToken = << <<"t">> >>
  /\ <<"b", "E", "a", "r", "e", "r", " ", " ", "t">> \in Supplied({"Authorization"})
  /\ hd.result.headers["authorization"] = <<"B", "e", "a", "r", "e", "r", " ", "t">>
  /\ Supplied({"X-Self-Name"}) # {}

\* the connections in the pool's Map, and the one registered under a name
Registered == {dyn.connections[i] : i \in 1..Len(dyn.connections)}
Listed(selfName) == \E o \in Registered : dyn.objs[o].name = selfName
ObjOf(selfName) == CHOOSE o \in Registered : dyn.objs[o].name = selfName
\* the name a config resolves to, written out: its selfName without blanks,
\* else its X-Self-Name header; <<>> when the two disagree or both are missing
ConfigName(config) ==
  IF config.selfName # <<>> /\ config.headers # <<>>
       /\ <<NameOf(config.selfName[1])>> # config.headers[1].value THEN <<>>
  ELSE IF config.selfName # <<>> THEN << <<NameOf(config.selfName[1])>> >>
  ELSE IF config.headers # <<>> THEN <<config.headers[1].value>>
  ELSE <<>>

\* C21: add(config) with a config whose resolved name is in the pool, also
\* while a remove() of that entry is waiting, fails with the duplicate-name
\* error and changes nothing: the Map, every connection, its sockets and
\* listeners are as before, and the pool emits nothing.
C21_DuplicateAddChangesNothing ==
  [][(/\ dobs'.op = "add"
      /\ ConfigName(dobs'.target) # <<>>
      /\ Listed(ConfigName(dobs'.target)[1])) =>
       (/\ dobs'.err = "Duplicate x-self-name"
        /\ dyn' = dyn
        /\ dobs'.events = <<>>)]_dvars

\* add() of a name has just failed as a duplicate while a remove() of that
\* name is waiting for its socket to close
C21_Witness ==
  /\ dobs.op = "add"
  /\ dobs.err = "Duplicate x-self-name"
  /\ dobs.target.selfName = << <<" ", "a">> >>
  /\ \E r \in dyn.removes : dyn.objs[r.obj].name = <<"a">>

\* C23: connect, close, waitForOpen and the client's send with the name
\* omitted and one entry in the pool act on that entry; with the name
\* omitted and several entries, send and waitForOpen fail and touch nothing
\* while connect and close act on every entry; with a name the pool does
\* not hold they fail and touch nothing; with a name it holds they act on
\* that entry alone.
C23_ImplicitAndUnknownTargets ==
  [][(dobs'.op \in {"connect", "close", "waitForOpen", "send"}) =>
       /\ \A o \in 1..Len(dyn.objs) :
            o \notin dobs'.acted =>
              (dyn'.objs[o].c = dyn.objs[o].c /\ dyn'.objs[o].s = dyn.objs[o].s)
       /\ (dobs'.target = <<>> /\ Cardinality(Registered) = 1) =>
            IF dobs'.op = "send"
              THEN IF dynIsOpen(dyn, dyn.connections[1])
                     THEN dobs'.sent = dyn.connections[1] /\ dobs'.err = ""
                     ELSE dobs'.sent = 0
                          /\ dobs'.err = "WebSocket is not open. Call connect() first."
              ELSE dobs'.acted = Registered /\ dobs'.err = ""
       /\ (dobs'.target = <<>> /\ Cardinality(Registered) > 1) =>
            IF dobs'.op \in {"send", "waitForOpen"}
              THEN /\ dobs'.err \in {"Multiple connections detected",
                                     "Multiple connections configured"}
                   /\ dobs'.acted = {} /\ dobs'.sent = 0 /\ dyn' = dyn
              ELSE dobs'.acted = Registered /\ dobs'.err = ""
       /\ (dobs'.target # <<>> /\ ~Listed(dobs'.target[1])) =>
            (dobs'.err # "" /\ dobs'.acted = {} /\ dobs'.sent = 0 /\ dyn' = dyn)
       /\ (dobs'.target # <<>> /\ Listed(dobs'.target[1])) =>
            /\ dobs'.acted \subseteq {ObjOf(dobs'.target[1])}
            /\ dobs'.sent \in {0, ObjOf(dobs'.target[1])}
            /\ dobs'.op # "send" => dobs'.acted = {ObjOf(dobs'.target[1])}]_dvars

\* a request that named no connection has gone out through the only entry
\* the pool holds, a second connection having been removed
C23_Witness ==
  /\ dobs.op = "send"
  /\ dobs.target = <<>>
  /\ dobs.sent # 0
  /\ Len(dyn.objs) = 2
  /\ Len(dyn.connections) = 1

\* the connections whose remove() ends with this step
RemovedByStep == {o \in 1..Len(dyn.objs) : ~dyn.objs[o].removed /\ dyn'.objs[o].removed}

\* a removed connection has no socket that is connecting or open, and no
\* reconnect timer
Discarded(d, o) ==
  /\ ~d.objs[o].attached
  /\ ~d.objs[o].c.reconnectTimer
  /\ \A s \in 1..Len(d.objs[o].s) : d.objs[o].s[s].readyState \in {"CLOSING", "CLOSED"}

\* C22: remove(name) of an unknown name changes nothing.  When a remove()
\* ends, the pool no longer lists the name, isOpen(name) is false, and if a
\* socket of the connection closed in that step the pool emitted that close
\* under the name before the listeners were taken off.  From then on the
\* removed connection is not in the pool, has no listeners of the pool, and
\* never reconnects: it has no connecting or open socket, dials none and
\* arms no reconnect timer.
C22_RemovedMeansGone ==
  [][/\ (dobs'.op = "remove" /\ ~Listed(dobs'.target[1])) =>
          (dyn' = dyn /\ dobs'.events = <<>>)
     /\ \A o \in RemovedByStep :
          /\ \A i \in 1..Len(dyn'.connections) :
               dyn'.objs[dyn'.connections[i]].name # dyn.objs[o].name
          /\ ~dynIsOpen(dyn', o)
          /\ Discarded(dyn', o)
          /\ (\E s \in 1..Len(dyn.objs[o].s) :
                dyn.objs[o].s[s].readyState # "CLOSED"
                /\ dyn'.objs[o].s[s].readyState = "CLOSED") =>
               (\E i \in 1..Len(dobs'.events) :
                  dobs'.events[i] = [type |-> "close", name |-> dyn.objs[o].name])
     /\ \A o \in 1..Len(dyn.objs) :
          dyn.objs[o].removed =>
            /\ Discarded(dyn', o)
            /\ Len(dyn'.objs[o].s) = Len(dyn.objs[o].s)
            /\ \A i \in 1..Len(dyn'.connections) : dyn'.connections[i] # o]_dvars

\* C31: when the close event of an earlier socket is handled while the
\* connection holds a later socket that is connecting or open, the reference
\* to the later socket is kept, its heartbeat monitor is left as it was, and
\* no reconnect is scheduled or announced.
C31_LateCloseLeavesLaterSocket ==
  [][(/\ obs'.op = "socketClose"
      /\ fwd.ws # 0
      /\ fwd.ws > obs'.src
      /\ sockets[fwd.ws].readyState \in {"CONNECTING", "OPEN"}) =>
       (/\ fwd'.ws = fwd.ws
        /\ sockets'[fwd.ws].monitor = sockets[fwd.ws].monitor
        /\ fwd'.reconnectTimer = fwd.reconnectTimer
        /\ ~NotedIn(obs', "reconnect"))]_fvars

\* the inbound sockets whose close event the step handled
ClosedPeers == {s \in 1..Len(peers) : peers[s].readyState # "CLOSED" /\ peers'[s].readyState = "CLOSED"}

\* C33: the close event of a socket that was replaced under its name leaves
\* the registry as it was (the replacement stays registered, its heartbeat
\* monitor keeps running, the origin maps are kept); the close event of the
\* socket registered under the name removes the name's registration, its
\* heartbeat and its origin.
C33_ReplacedCloseKeepsRegistry ==
  [][\A s \in ClosedPeers :
       (robs'.op = "socketClose" /\ peers[s].selfName # <<>>) =>
         LET n == peers[s].selfName
         IN IF rev.sockets[n] # s
              THEN /\ rev' = rev
                   /\ \A t \in 1..Len(peers) : t # s => peers'[t] = peers[t]
              ELSE /\ rev'.sockets[n] = 0
                   /\ rev'.heartbeatStops[n] = 0
                   /\ rev'.originBySelfName[n] = <<>>
                   /\ \A o \in ROrigins : rev'.selfNameByOrigin[o] # n]_rvars

\* the close of a replaced socket was handled and the replacement is still
\* registered under the name with its heartbeat monitor and its origin
C33_Witness ==
  /\ robs.op = "socketClose"
  /\ robs.arg # <<>>
  /\ rev.sockets[robs.arg] # 0
  /\ peers[rev.sockets[robs.arg]].monitor
  /\ rev.heartbeatStops[robs.arg] = rev.sockets[robs.arg]
  /\ rev.originBySelfName[robs.arg] # <<>>
  /\ \E s \in 1..Len(peers) : /\ peers[s].selfName = robs.arg
                              /\ peers[s].readyState = "CLOSED"
                              /\ peers[s].closeCode = 1001

\* the number of reconnect notifications a step emitted
Reconnects(o) == Cardinality({i \in 1..Len(o.events) : o.events[i].type = "reconnect"})

\* C37: a reconnect timer is armed (and announced) by a step at most once
\* and only when no timer was pending, so at most one timer is pending at any
\* time; a socket close handled while a timer is pending arms nothing,
\* announces nothing and leaves the attempt count and the backoff delay as
\* they were.
C37_OneReconnectTimer ==
  [][/\ Reconnects(obs') <= 1
     /\ (Reconnects(obs') = 1) => (~fwd.reconnectTimer /\ fwd'.reconnectTimer)
     /\ (~fwd.reconnectTimer /\ fwd'.reconnectTimer) => (Reconnects(obs') = 1)
     /\ (obs'.op = "socketClose" /\ fwd.reconnectTimer) =>
          (/\ Reconnects(obs') = 0
           /\ fwd'.reconnectTimer
           /\ fwd'.reconnectAttempt = fwd.reconnectAttempt
           /\ fwd'.reconnectDelayMs = fwd.reconnectDelayMs)]_fvars

\* a socket close was handled with reconnection wanted while a timer was
\* already pending: the step announced no reconnect
C37_Witness ==
  /\ obs.op = "socketClose"
  /\ opts.reconnect
  /\ ~fwd.closing
  /\ fwd.reconnectTimer
  /\ Reconnects(obs) = 0

\* the calls of request() whose send the step settled
SettledCalls == inflight \ inflight'

\* C38: a request() that gets as far as sending adds exactly one pending
\* entry, under the key of (echo, socket name); when its send fails the step
\* leaves no entry and no timer under that key and removes nothing else, so
\* the call leaves the table as large as it was before the call.
C38_FailedSendLeavesNoEntry ==
  [][/\ (last'.op = "request" /\ last'.result = "sent") =>
          \E call \in inflight' :
            /\ ~MapHas(pending, getKey(call.echo, call.selfName))
            /\ MapHas(pending', getKey(call.echo, call.selfName))
            /\ Len(pending') = Len(pending) + 1
     /\ (last'.op = "sendFail") =>
          \A call \in SettledCalls :
            LET key == getKey(call.echo, call.selfName)
            IN /\ ~MapHas(pending', key)
               /\ \A tm \in timers' : tm.key # key
               /\ pending' = MapDelete(pending, key)
               /\ timers' = {tm \in timers : tm.key # key}
               /\ MapHas(pending, key) =>
                    /\ Len(pending') = Len(pending) - 1
                    /\ promises'[MapGet(pending, key).id].state = "rejected"]_pvars

\* the live deadline timers armed for pending entry e
TimersOf(e) == {tm \in timers : tm.id = e.id}

\* C39: each pending entry has exactly one live deadline timer, armed for its
\* key, and each live timer belongs to an entry that is still in the table
\* and still unsettled; so a timer armed for an earlier entry of a key is
\* never alive beside a later entry of that key.
C39_OneTimerPerEntry ==
  /\ \A e \in MapEntries(pending) :
       /\ Cardinality(TimersOf(e)) = 1
       /\ \A tm \in TimersOf(e) : tm.key = e.key /\ tm.connection = e.connection
  /\ \A tm \in timers :
       /\ \E e \in MapEntries(pending) : e.id = tm.id /\ e.key = tm.key
       /\ promises[tm.id].state = "pending"
  /\ \A tm1, tm2 \in timers : tm1.key = tm2.key => tm1 = tm2
  /\ Cardinality(timers) = Len(pending)

\* an earlier request was rejected by a bulk rejection and a later entry is
\* pending: the only live timer is the later entry's
C39_Witness ==
  /\ Len(promises) >= 2
  /\ promises[1].state = "rejected"
  /\ promises[1].value = "cleanup"
  /\ Len(pending) = 1
  /\ pending[1].id = 2
  /\ \A tm \in timers : tm.id = 2
  /\ last.op = "create"

\* C40: the key of a pending request is the key of no other (id, scope)
\* pair: whatever id and scope getKey is given, it returns the key of a
\* pending request only for that request's own id and scope.
C40_KeyIsInjective ==
  \A tm \in timers : \A e \in Echoes, c \in Scopes :
    (getKey(e, c) = tm.key) => (e = tm.echo /\ c = tm.connection)

\* C35: a timer callback that finds the socket open, the peer answering, no
\* ping unanswered and no more than one interval passed since the last pong
\* (or since the monitor started) pings and does not terminate, whatever the
\* normalized interval and timeout are.
C35_AnsweringPeerIsKept ==
  [][(/\ hb.timer
      /\ hb.readyState = "OPEN"
      /\ hb.answering
      /\ ~hb.unanswered
      /\ hb.sincePong <= hb.intervalMs
      /\ hb'.did # "none") =>
       (hb'.did = "ping" /\ hb'.readyState = "OPEN")]_hb

\* C32: the close event of a socket that was replaced under its name fails
\* only requests that were issued on that socket: a request issued on any
\* other socket, the replacement included, and pending before the step is
\* pending after it.
C32_OldCloseSparesNewRequests ==
  [][\A s \in ClosedPeers :
       (peers[s].selfName # <<>> /\ rev.sockets[peers[s].selfName] # s) =>
         \A i \in 1..Len(promises) :
           (promises[i].state = "pending" /\ client.issuedOn[i] # s) =>
             promises'[i].state = "pending"]_<<pvars, rvars, client>>

\* the notifications of the given type among those the client emitted
Notes(c, type) == {i \in 1..Len(c.notes) : c.notes[i] = type}

\* C34: the client emits 'open' only in a step that takes the set of open
\* named connections from empty to one name, and 'close' only in a step that
\* takes it from one name to empty; an 'open' follows no 'open' and a 'close'
\* follows an 'open'.
C34_OpenCloseAlternate ==
  [][/\ (Notes(client', "open") # {}) =>
          /\ client.openConnections = {}
          /\ Cardinality(client'.openConnections) = 1
          /\ client.lastNote # "open"
     /\ (Notes(client', "close") # {}) =>
          /\ Cardinality(client.openConnections) = 1
          /\ client'.openConnections = {}
          /\ client.lastNote = "open"]_<<rvars, client>>

\* the connection was dialled at least once
Dialled == Len(sockets) >= 1

=============================================================================
